---- MODULE Spec2Model ----
(***************************************************************************)
(* Model of the Laika proof-of-concept browsing agent                      *)
(* (src/src/model_playground/laika_poc.py): the tool argument validators,  *)
(* BrowserTab / BrowserSession, ToolExecutor.execute and the Agent.run     *)
(* control loop.                                                           *)
(*                                                                         *)
(* Two specifications are given.  Spec drives ToolExecutor.execute with    *)
(* arbitrary tool calls against one BrowserSession.  SpecAgent runs        *)
(* Agent.run from construction to its return (or to an escaping            *)
(* exception) against an arbitrary decision model and fetch outcomes.      *)
(***************************************************************************)
EXTENDS Integers, Sequences, FiniteSets, TLC

(***************************************************************************)
(* Bounds of the model.                                                    *)
(***************************************************************************)
MaxTabs == 2
MaxHistory == 3
MaxStepsBound == 6
MaxToolCalls == 2

(***************************************************************************)
(* Enumerations.                                                           *)
(***************************************************************************)
OBSERVE == "observe"
ASSIST == "assist"
SiteMode == {OBSERVE, ASSIST}

BROWSER_OBSERVE_DOM == "browser.observe_dom"
BROWSER_CLICK == "browser.click"
BROWSER_TYPE == "browser.type"
BROWSER_SCROLL == "browser.scroll"
BROWSER_OPEN_TAB == "browser.open_tab"
BROWSER_NAVIGATE == "browser.navigate"
BROWSER_BACK == "browser.back"
BROWSER_FORWARD == "browser.forward"
BROWSER_REFRESH == "browser.refresh"
BROWSER_SELECT == "browser.select"
CONTENT_SUMMARIZE == "content.summarize"
CONTENT_FIND == "content.find"

ToolName ==
    {BROWSER_OBSERVE_DOM, BROWSER_CLICK, BROWSER_TYPE, BROWSER_SCROLL,
     BROWSER_OPEN_TAB, BROWSER_NAVIGATE, BROWSER_BACK, BROWSER_FORWARD,
     BROWSER_REFRESH, BROWSER_SELECT, CONTENT_SUMMARIZE, CONTENT_FIND}

ToolStatus == {"ok", "error", "cancelled"}

(***************************************************************************)
(* The web the fetch collaborator serves.  A URL is a string; urlparse is  *)
(* tabulated on the URLs of the model.  A page's markup is abstracted to   *)
(* its title, its visible text, its interactive tags in document order,    *)
(* its list entries and (for the known aggregator) its topic rows.         *)
(***************************************************************************)
NoUrl == ""
HN_FRONT == "https://news.ycombinator.com"
HN_ITEM1 == "https://news.ycombinator.com/item?id=1"
ART1 == "https://a.example/one/"
LISTP == "https://b.example/list"
ITEMP == "https://b.example/p1"
DEAD == "https://dead.example/gone"

Pages == {HN_FRONT, HN_ITEM1, ART1, LISTP, ITEMP}
Urls == Pages \cup {DEAD}

urlparse(url) ==
    CASE url = HN_FRONT -> [scheme |-> "https", netloc |-> "news.ycombinator.com", path |-> ""]
      [] url = HN_ITEM1 -> [scheme |-> "https", netloc |-> "news.ycombinator.com", path |-> "/item"]
      [] url = ART1 -> [scheme |-> "https", netloc |-> "a.example", path |-> "/one/"]
      [] url = LISTP -> [scheme |-> "https", netloc |-> "b.example", path |-> "/list"]
      [] url = ITEMP -> [scheme |-> "https", netloc |-> "b.example", path |-> "/p1"]
      [] url = DEAD -> [scheme |-> "https", netloc |-> "dead.example", path |-> "/gone"]
      [] OTHER -> [scheme |-> "", netloc |-> "", path |-> url]

\* str.rstrip("/") on the URLs of the model.
rstrip_slash(url) == IF url = ART1 THEN "https://a.example/one" ELSE url

is_hn_frontpage(url) ==
    LET parsed == urlparse(url) IN
    IF parsed.netloc # "news.ycombinator.com" THEN FALSE
    ELSE IF parsed.path \in {"", "/"} THEN TRUE
    ELSE parsed.path \in {"/news", "/newest", "/front"}

is_hn_url(url) == urlparse(url).netloc = "news.ycombinator.com"

is_hn_item(url) ==
    LET parsed == urlparse(url) IN
    IF parsed.netloc # "news.ycombinator.com" THEN FALSE
    ELSE parsed.path = "/item"

\* A tag of the markup: anchors carry the resolved href (NoUrl when
\* _safe_href yields None), labelled says whether _extract_label is non-empty.
Tag(role, href, labelled) == [role |-> role, href |-> href, labelled |-> labelled]

\* A tr.athing row of the aggregator markup.
TopicRow(title, url, comments_url) ==
    [title |-> title, url |-> url, comments_url |-> comments_url]

\* A list entry found by _collect_items on a generic page.
ItemRow(title, url, links) == [title |-> title, url |-> url, links |-> links]

Web ==
    [p \in Pages |->
        CASE p = HN_FRONT ->
                [title |-> "Hacker News",
                 tags |-> <<Tag("a", ART1, TRUE), Tag("a", HN_ITEM1, TRUE),
                            Tag("a", NoUrl, TRUE), Tag("input", NoUrl, FALSE)>>,
                 rows |-> <<TopicRow("one", ART1, HN_ITEM1), TopicRow("list", LISTP, NoUrl),
                            TopicRow("p1", ITEMP, NoUrl)>>,
                 items |-> <<>>, text |-> "topics"]
          [] p = HN_ITEM1 ->
                [title |-> "One | Hacker News",
                 tags |-> <<Tag("a", ART1, TRUE), Tag("button", NoUrl, FALSE),
                            Tag("textarea", NoUrl, FALSE)>>,
                 rows |-> <<TopicRow("one", ART1, HN_ITEM1)>>,
                 items |-> <<>>, text |-> "thread"]
          [] p = ART1 ->
                [title |-> "One",
                 tags |-> <<Tag("button", NoUrl, TRUE), Tag("input", NoUrl, FALSE),
                            Tag("select", NoUrl, FALSE)>>,
                 rows |-> <<>>,
                 items |-> <<>>, text |-> "article"]
          [] p = LISTP ->
                [title |-> "List",
                 tags |-> <<Tag("a", ITEMP, TRUE), Tag("a", ART1, TRUE)>>,
                 rows |-> <<>>,
                 items |-> <<ItemRow("p1", ITEMP, <<>>), ItemRow("one", ART1, <<>>)>>, text |-> "list"]
          [] p = ITEMP ->
                [title |-> "",
                 tags |-> <<Tag("a", LISTP, TRUE), Tag("select", NoUrl, TRUE)>>,
                 rows |-> <<>>,
                 items |-> <<ItemRow("p1", LISTP, <<>>)>>, text |-> ""]]

\* Markup is identified by the page it was served for; NoHtml is the empty
\* markup of a tab that has not loaded.
NoHtml == ""

extract_title(html) == IF html \in Pages THEN Web[html].title ELSE ""

(***************************************************************************)
(* JSON values of tool arguments: t is the Python type of the value, s its *)
(* string payload and n its integer payload.                               *)
(***************************************************************************)
JVal(t, s, n) == [t |-> t, s |-> s, n |-> n]
JStr(s) == JVal("str", s, 0)
JInt(n) == JVal("int", "", n)
JBool(b) == JVal("bool", "", IF b THEN 1 ELSE 0)
JFloat(n) == JVal("float", "", n)
JNull == JVal("null", "", 0)

\* isinstance(value, cls): bool is a subclass of int in Python.
isinstance(value, cls) ==
    CASE cls = "str" -> value.t = "str"
      [] cls = "int" -> value.t \in {"int", "bool"}
      [] cls = "float" -> value.t = "float"
      [] cls = "bool" -> value.t = "bool"
      [] OTHER -> FALSE

is_string(value) == isinstance(value, "str")

\* is_number without the exclusion of bool.
is_number_AcceptsBool(value) == isinstance(value, "int") \/ isinstance(value, "float")

is_number(value) ==
    (isinstance(value, "int") \/ isinstance(value, "float")) /\ ~isinstance(value, "bool")

is_int(value) == isinstance(value, "int") /\ ~isinstance(value, "bool")

\* Python truthiness of a JSON value (used by `x or default`).
Truthy(value) ==
    CASE value.t = "str" -> value.s # ""
      [] value.t \in {"int", "float", "bool"} -> value.n # 0
      [] OTHER -> FALSE

(***************************************************************************)
(* Tool argument validators.  An arguments object is a function from its   *)
(* keys to JSON values.  The reason strings keep the fixed part of the     *)
(* source's messages (the key list of the f-string is dropped).            *)
(***************************************************************************)
Keys(args) == DOMAIN args

EmptyArgs == [k \in {} |-> JNull]

Check(check, value) ==
    CASE check = "is_string" -> is_string(value)
      [] check = "is_int" -> is_int(value)
      [] check = "is_number" -> is_number(value)

Verdict(ok, err) == [ok |-> ok, err |-> err]

validate_content_summarize(args) ==
    LET allowed_keys == {"scope", "handleId"}
        extra == Keys(args) \ allowed_keys
    IN  IF extra # {} THEN Verdict(FALSE, "unexpected keys")
        ELSE IF "scope" \notin Keys(args) /\ "handleId" \notin Keys(args)
            THEN Verdict(FALSE, "missing scope or handleId")
        ELSE IF "scope" \in Keys(args) /\ ~is_string(args["scope"])
            THEN Verdict(FALSE, "scope must be a string")
        ELSE IF "handleId" \in Keys(args) /\ ~is_string(args["handleId"])
            THEN Verdict(FALSE, "handleId must be a string")
        ELSE Verdict(TRUE, "")

validate_content_find(args) ==
    LET allowed_keys == {"query", "scope"}
        extra == Keys(args) \ allowed_keys
    IN  IF extra # {} THEN Verdict(FALSE, "unexpected keys")
        ELSE IF "query" \notin Keys(args) \/ "scope" \notin Keys(args)
            THEN Verdict(FALSE, "missing query or scope")
        ELSE IF ~is_string(args["query"]) THEN Verdict(FALSE, "query must be a string")
        ELSE IF ~is_string(args["scope"]) THEN Verdict(FALSE, "scope must be a string")
        ELSE Verdict(TRUE, "")

\* required and optional map a key to the name of its type predicate.
make_simple_validator(required, optional, args) ==
    LET allowed == DOMAIN required \cup DOMAIN optional
        extra == Keys(args) \ allowed
        missing == {key \in DOMAIN required : key \notin Keys(args)}
        checks == [key \in allowed |->
                      IF key \in DOMAIN optional THEN optional[key] ELSE required[key]]
    IN  IF extra # {} THEN Verdict(FALSE, "unexpected keys")
        ELSE IF missing # {} THEN Verdict(FALSE, "missing keys")
        ELSE IF \E key \in allowed : key \in Keys(args) /\ ~Check(checks[key], args[key])
            THEN Verdict(FALSE, "invalid type")
        ELSE Verdict(TRUE, "")

NoKeys == [k \in {} |-> "is_string"]

ObserveDomOptional ==
    [k \in {"maxChars", "maxElements", "maxBlocks", "maxPrimaryChars", "maxOutline",
            "maxOutlineChars", "maxItems", "maxItemChars", "maxComments",
            "maxCommentChars", "rootHandleId"} |->
        IF k = "rootHandleId" THEN "is_string" ELSE "is_int"]

\* The declared required / optional keys of the tools built by
\* _make_simple_validator.
RequiredKeys(name) ==
    CASE name = BROWSER_CLICK -> [k \in {"handleId"} |-> "is_string"]
      [] name = BROWSER_TYPE -> [k \in {"handleId", "text"} |-> "is_string"]
      [] name = BROWSER_SCROLL -> [k \in {"deltaY"} |-> "is_number"]
      [] name = BROWSER_OPEN_TAB -> [k \in {"url"} |-> "is_string"]
      [] name = BROWSER_NAVIGATE -> [k \in {"url"} |-> "is_string"]
      [] name = BROWSER_SELECT -> [k \in {"handleId", "value"} |-> "is_string"]
      [] OTHER -> NoKeys

OptionalKeys(name) ==
    CASE name = BROWSER_OBSERVE_DOM -> ObserveDomOptional
      [] OTHER -> NoKeys

TOOL_VALIDATORS(name, args) ==
    CASE name = CONTENT_SUMMARIZE -> validate_content_summarize(args)
      [] name = CONTENT_FIND -> validate_content_find(args)
      [] OTHER -> make_simple_validator(RequiredKeys(name), OptionalKeys(name), args)

ToolCall(name, arguments) == [name |-> name, arguments |-> arguments]

(***************************************************************************)
(* Observer: the part of _parse_observation the executor and the agent     *)
(* depend on (url, title, interactive elements with their handle ids, the  *)
(* aggregator topics and the list items).                                  *)
(***************************************************************************)
HandleIds == <<"laika-1", "laika-2", "laika-3", "laika-4">>

ObservedElement(handle_id, role, href) ==
    [handle_id |-> handle_id, role |-> role, href |-> href]

ItemLink(title, url) == [title |-> title, url |-> url]

hn_topics_to_items(topics) ==
    [i \in 1..Len(topics) |->
        ItemRow(topics[i].title, topics[i].url,
                IF topics[i].comments_url # NoUrl
                    THEN <<ItemLink("comments", topics[i].comments_url)>>
                    ELSE <<>>)]

Observation(url, title, text, elements, topics, items) ==
    [url |-> url, title |-> title, text |-> text, elements |-> elements,
     topics |-> topics, items |-> items]

EmptyObservation == Observation("", "", "", <<>>, <<>>, <<>>)

\* The loop over soup.find_all([...]) that assigns handle ids: the tags from
\* position i on, with `elements` kept so far.
RECURSIVE CollectElements(_, _, _, _)
CollectElements(tags, i, elements, max_elements) ==
    IF i > Len(tags) THEN elements
    ELSE IF Len(elements) >= max_elements THEN elements
    ELSE LET tag == tags[i] IN
         IF tag.role = "a" /\ tag.href = NoUrl
             THEN CollectElements(tags, i + 1, elements, max_elements)
         ELSE IF ~tag.labelled /\ tag.role \in {"a", "button"}
             THEN CollectElements(tags, i + 1, elements, max_elements)
         ELSE CollectElements(tags, i + 1,
                  Append(elements,
                         ObservedElement(HandleIds[Len(elements) + 1], tag.role, tag.href)),
                  max_elements)

\* The markup of a fetched page; a tab that never loaded has none.
PageOfHtml(html) ==
    IF html \in Pages THEN Web[html]
    ELSE [title |-> "", tags |-> <<>>, rows |-> <<>>, items |-> <<>>, text |-> ""]

\* a handle map that hands every id the first element
ElementMap_AllToFirst(elements) ==
    [h \in {elements[i].handle_id : i \in 1..Len(elements)} |-> elements[1]]

ElementMap(elements) ==
    [h \in {elements[i].handle_id : i \in 1..Len(elements)} |->
        CHOOSE e \in {elements[i] : i \in 1..Len(elements)} : e.handle_id = h]

ObservePage(url, page, elements, topics) ==
    [observation |->
         Observation(url, page.title, page.text, elements, topics,
                     IF topics # <<>> THEN hn_topics_to_items(topics) ELSE page.items),
     element_map |-> ElementMap(elements)]

ParsePage(url, page, max_elements) ==
    ObservePage(url, page, CollectElements(page.tags, 1, <<>>, max_elements),
                IF is_hn_url(url) THEN page.rows ELSE <<>>)

parse_observation(url, html, max_elements) ==
    ParsePage(url, PageOfHtml(html), max_elements)

(***************************************************************************)
(* BrowserTab.  history is 1-based here, history_index keeps the source's  *)
(* 0-based value (-1 before the first load).  Every operation returns the  *)
(* tab after it, the (ok, err) pair of the source, and the number of       *)
(* requests.get calls it made.  fetch_ok is the outcome of the fetch       *)
(* collaborator; a URL outside the web never loads.                        *)
(***************************************************************************)
NoElements == [h \in {} |-> ObservedElement("", "", NoUrl)]
NoFormValues == [h \in {} |-> ""]

BrowserTab(url) ==
    [url |-> url, title |-> "", html |-> NoHtml, history |-> <<>>,
     history_index |-> -1, element_map |-> NoElements, form_values |-> NoFormValues]

TabResult(tab, ok, err, fetches) ==
    [tab |-> tab, ok |-> ok, err |-> err, fetches |-> fetches]

\* PushHistory without the truncation of the forward entries.
PushHistory_NoTruncate(tab, url) ==
    LET history == Append(tab.history, url)
    IN  [tab EXCEPT !.history = history, !.history_index = Len(history) - 1]

PushHistory(tab, url) ==
    LET kept == IF tab.history_index + 1 < Len(tab.history)
                    THEN SubSeq(tab.history, 1, tab.history_index + 1)
                    ELSE tab.history
        history == Append(kept, url)
    IN  [tab EXCEPT !.history = history, !.history_index = Len(history) - 1]

BrowserTab_load(tab, url, push_history, fetch_ok) ==
    IF ~(fetch_ok /\ url \in Pages) THEN TabResult(tab, FALSE, "fetch failed", 1)
    ELSE LET loaded == [tab EXCEPT !.url = url, !.html = url, !.title = extract_title(url)]
         IN  TabResult(IF push_history THEN PushHistory(loaded, url) ELSE loaded,
                       TRUE, "", 1)

\* BrowserTab_back with the boundary test `history_index < 0`: at index 0 the
\* index becomes -1, which Python resolves to the last history entry.
BrowserTab_back_OffByOne(tab, fetch_ok) ==
    IF tab.history_index < 0 THEN TabResult(tab, FALSE, "no back history", 0)
    ELSE LET moved == [tab EXCEPT !.history_index = tab.history_index - 1]
             position == IF moved.history_index < 0 THEN Len(moved.history)
                         ELSE moved.history_index + 1
         IN  BrowserTab_load(moved, moved.history[position], FALSE, fetch_ok)

BrowserTab_back(tab, fetch_ok) ==
    IF tab.history_index <= 0 THEN TabResult(tab, FALSE, "no back history", 0)
    ELSE LET moved == [tab EXCEPT !.history_index = tab.history_index - 1]
         IN  BrowserTab_load(moved, moved.history[moved.history_index + 1], FALSE, fetch_ok)

\* BrowserTab_forward that replays the stored URL with push_history = True.
BrowserTab_forward_Pushes(tab, fetch_ok) ==
    IF tab.history_index + 1 >= Len(tab.history)
        THEN TabResult(tab, FALSE, "no forward history", 0)
    ELSE LET moved == [tab EXCEPT !.history_index = tab.history_index + 1]
         IN  BrowserTab_load(moved, moved.history[moved.history_index + 1], TRUE, fetch_ok)

BrowserTab_forward(tab, fetch_ok) ==
    IF tab.history_index + 1 >= Len(tab.history)
        THEN TabResult(tab, FALSE, "no forward history", 0)
    ELSE LET moved == [tab EXCEPT !.history_index = tab.history_index + 1]
         IN  BrowserTab_load(moved, moved.history[moved.history_index + 1], FALSE, fetch_ok)

BrowserTab_refresh(tab, fetch_ok) ==
    IF tab.url = NoUrl THEN TabResult(tab, FALSE, "no active url", 0)
    ELSE BrowserTab_load(tab, tab.url, FALSE, fetch_ok)

(***************************************************************************)
(* BrowserSession.  active_index is 0-based as in the source.              *)
(***************************************************************************)
BrowserSession == [tabs |-> <<>>, active_index |-> -1]

HasActiveTab(s) == ~(s.active_index < 0 \/ s.active_index >= Len(s.tabs))

active_tab(s) == s.tabs[s.active_index + 1]

SessionResult(s, ok, err, fetches) ==
    [session |-> s, ok |-> ok, err |-> err, fetches |-> fetches]

WithActiveTab(s, r) ==
    SessionResult([s EXCEPT !.tabs[s.active_index + 1] = r.tab], r.ok, r.err, r.fetches)

\* open_tab that appends the new tab before looking at the load's outcome.
open_tab_KeepsBrokenTab(s, url, fetch_ok) ==
    LET r == BrowserTab_load(BrowserTab(url), url, TRUE, fetch_ok)
        tabs == Append(s.tabs, r.tab)
    IN  SessionResult([tabs |-> tabs, active_index |-> Len(tabs) - 1], r.ok, r.err,
                      r.fetches)

open_tab(s, url, fetch_ok) ==
    LET r == BrowserTab_load(BrowserTab(url), url, TRUE, fetch_ok) IN
    IF ~r.ok THEN SessionResult(s, FALSE, r.err, r.fetches)
    ELSE LET tabs == Append(s.tabs, r.tab) IN
         SessionResult([tabs |-> tabs, active_index |-> Len(tabs) - 1], TRUE, "", r.fetches)

\* A navigate that fetches again after its load: two requests per call.
navigate_Refetching(s, url, fetch_ok) ==
    LET r == IF ~HasActiveTab(s) THEN open_tab(s, url, fetch_ok)
             ELSE WithActiveTab(s, BrowserTab_load(active_tab(s), url, TRUE, fetch_ok))
    IN SessionResult(r.session, r.ok, r.err, r.fetches + 1)

navigate(s, url, fetch_ok) ==
    IF ~HasActiveTab(s) THEN open_tab(s, url, fetch_ok)
    ELSE WithActiveTab(s, BrowserTab_load(active_tab(s), url, TRUE, fetch_ok))

back(s, fetch_ok) ==
    IF ~HasActiveTab(s) THEN SessionResult(s, FALSE, "no active tab", 0)
    ELSE WithActiveTab(s, BrowserTab_back(active_tab(s), fetch_ok))

forward(s, fetch_ok) ==
    IF ~HasActiveTab(s) THEN SessionResult(s, FALSE, "no active tab", 0)
    ELSE WithActiveTab(s, BrowserTab_forward(active_tab(s), fetch_ok))

refresh(s, fetch_ok) ==
    IF ~HasActiveTab(s) THEN SessionResult(s, FALSE, "no active tab", 0)
    ELSE WithActiveTab(s, BrowserTab_refresh(active_tab(s), fetch_ok))

\* observe_dom returns the Observation and stores the new handle map in the
\* active tab.
observe_dom(s, max_elements) ==
    IF ~HasActiveTab(s) THEN [session |-> s, observation |-> EmptyObservation]
    ELSE LET tab == active_tab(s)
             parsed == parse_observation(tab.url, tab.html, max_elements)
         IN  [session |-> [s EXCEPT !.tabs[s.active_index + 1].element_map =
                                        parsed.element_map],
              observation |-> parsed.observation]

(***************************************************************************)
(* SummaryService.summarize, reduced to what its callers see: whether the  *)
(* selected input has a body, whether the model is invoked, and which of   *)
(* the three kinds of text comes back.  gen is the class of the text the   *)
(* model's generate_text returns.                                          *)
(***************************************************************************)
GenTexts == {"", "grounded", "ungrounded"}

has_meaningful_content(observation, wants_comments) ==
    wants_comments \/ observation.text # "" \/ observation.items # <<>>

\* _validate_summary that does not reject the empty text.
validate_summary_AcceptsEmpty(cleaned) == cleaned # "ungrounded"

validate_summary(cleaned) == cleaned = "grounded"

\* A validated text is returned as the model wrote it.
SummaryService_summarize(observation, wants_comments, gen) ==
    IF ~has_meaningful_content(observation, wants_comments)
        THEN [text |-> "Not stated in the page.", generations |-> 0]
    ELSE IF validate_summary(gen) THEN [text |-> gen, generations |-> 1]
    ELSE [text |-> "extractive fallback", generations |-> 1]

\* _summarize_text(source_text): the leading sentences of the text.
summarize_text(text) == IF text = "" THEN "" ELSE "leading sentences"

(***************************************************************************)
(* ToolExecutor.execute.                                                   *)
(***************************************************************************)
GoalPlan(topic_index, wants_comments, item_query) ==
    [topic_index |-> topic_index, wants_comments |-> wants_comments,
     item_query |-> item_query]

\* None for GoalPlan.topic_index and GoalPlan.item_query.
NoIndex == -1
NoQuery == ""

ToolExecutor(max_elements, mode, goal_plan) ==
    [max_elements |-> max_elements, mode |-> mode, goal_plan |-> goal_plan]

Payload(kind, error, url, title, summary) ==
    [kind |-> kind, error |-> error, url |-> url, title |-> title, summary |-> summary]

ToolResult(status, payload) == [status |-> status, payload |-> payload]

ErrorResult(error) == ToolResult("error", Payload("error", error, "", "", ""))

\* ToolExecutionOutcome plus the effects of the call: the session after it
\* and the numbers of page fetches, web searches and model generations made.
Executed(s, result, has_observation, observation, fetches, searches, generations) ==
    [session |-> s, result |-> result, has_observation |-> has_observation,
     observation |-> observation, fetches |-> fetches, searches |-> searches,
     generations |-> generations]

Failed(s, error, fetches) ==
    Executed(s, ErrorResult(error), FALSE, EmptyObservation, fetches, 0, 0)

\* policy_allows that lets the content tools through in OBSERVE mode.
policy_allows_ContentTools(self, call) ==
    IF self.mode = OBSERVE
       /\ call.name \notin {BROWSER_OBSERVE_DOM, CONTENT_SUMMARIZE, CONTENT_FIND}
        THEN Verdict(FALSE, "observe_mode_blocks_tool")
    ELSE Verdict(TRUE, "")

\* policy_allows that lets browser.navigate through in OBSERVE mode.
policy_allows_Navigate(self, call) ==
    IF self.mode = OBSERVE /\ call.name \notin {BROWSER_OBSERVE_DOM, BROWSER_NAVIGATE}
        THEN Verdict(FALSE, "observe_mode_blocks_tool")
    ELSE Verdict(TRUE, "")

policy_allows(self, call) ==
    IF self.mode = OBSERVE /\ call.name # BROWSER_OBSERVE_DOM
        THEN Verdict(FALSE, "observe_mode_blocks_tool")
    ELSE Verdict(TRUE, "")

\* The tail shared by the navigation-producing branches: on success observe
\* with the executor's budgets and return {url, title} with the Observation.
Navigated(self, r) ==
    IF ~r.ok THEN Failed(r.session, r.err, r.fetches)
    ELSE LET o == observe_dom(r.session, self.max_elements) IN
         Executed(o.session,
                  ToolResult("ok", Payload("navigation", "", o.observation.url,
                                           o.observation.title, "")),
                  TRUE, o.observation, r.fetches, 0, 0)

ArgOr(args, key, default) ==
    IF key \in Keys(args) /\ Truthy(args[key]) THEN args[key].n ELSE default

ExecObserveDom(self, s, call) ==
    LET max_elements == ArgOr(call.arguments, "maxElements", self.max_elements)
        o == observe_dom(s, max_elements)
    IN  Executed(o.session,
                 ToolResult("ok", Payload("observation", "", o.observation.url,
                                          o.observation.title, "")),
                 TRUE, o.observation, 0, 0, 0)

KnownHandle(s, handle_id) ==
    HasActiveTab(s) /\ handle_id \in DOMAIN active_tab(s).element_map

\* A click that reloads the page when the element is not an anchor.
ExecClick_Reloads(self, s, call, fetch_ok) ==
    LET handle_id == call.arguments["handleId"].s IN
    IF ~KnownHandle(s, handle_id) THEN Failed(s, "unknown_handle", 0)
    ELSE LET element == active_tab(s).element_map[handle_id] IN
         IF element.role = "a" /\ element.href # NoUrl
             THEN Navigated(self, navigate(s, element.href, fetch_ok))
         ELSE Navigated(self, refresh(s, fetch_ok))

ExecClick(self, s, call, fetch_ok) ==
    LET handle_id == call.arguments["handleId"].s IN
    IF ~KnownHandle(s, handle_id) THEN Failed(s, "unknown_handle", 0)
    ELSE LET element == active_tab(s).element_map[handle_id] IN
         IF element.role = "a" /\ element.href # NoUrl
             THEN Navigated(self, navigate(s, element.href, fetch_ok))
         ELSE Navigated(self, SessionResult(s, TRUE, "", 0))

SetFormValue(s, handle_id, value) ==
    LET tab == active_tab(s)
        form_values == [h \in DOMAIN tab.form_values \cup {handle_id} |->
                           IF h = handle_id THEN value ELSE tab.form_values[h]]
    IN  [s EXCEPT !.tabs[s.active_index + 1].form_values = form_values]

\* ExecType that tests only for an active tab, not for the handle.
ExecType_SkipsHandleCheck(self, s, call) ==
    LET handle_id == call.arguments["handleId"].s
        text == call.arguments["text"].s
    IN  IF ~HasActiveTab(s) THEN Failed(s, "unknown_handle", 0)
        ELSE Executed(SetFormValue(s, handle_id, text),
                      ToolResult("ok", Payload("typed", "", "", "", "")),
                      FALSE, EmptyObservation, 0, 0, 0)

ExecType(self, s, call) ==
    LET handle_id == call.arguments["handleId"].s
        text == call.arguments["text"].s
    IN  IF ~KnownHandle(s, handle_id) THEN Failed(s, "unknown_handle", 0)
        ELSE Executed(SetFormValue(s, handle_id, text),
                      ToolResult("ok", Payload("typed", "", "", "", "")),
                      FALSE, EmptyObservation, 0, 0, 0)

ExecSelect(self, s, call) ==
    LET handle_id == call.arguments["handleId"].s
        value == call.arguments["value"].s
    IN  IF ~KnownHandle(s, handle_id) THEN Failed(s, "unknown_handle", 0)
        ELSE Executed(SetFormValue(s, handle_id, value),
                      ToolResult("ok", Payload("selected", "", "", "", "")),
                      FALSE, EmptyObservation, 0, 0, 0)

ExecScroll(self, s, call) ==
    Executed(s, ToolResult("ok", Payload("scrolled", "", "", "", "")),
             FALSE, EmptyObservation, 0, 0, 0)

ExecSummarize(self, s, call, gen) ==
    LET scope == IF "scope" \in Keys(call.arguments) /\ Truthy(call.arguments["scope"])
                     THEN call.arguments["scope"].s ELSE "page"
    IN  IF ~HasActiveTab(s) THEN Failed(s, "no_active_tab", 0)
        ELSE LET o == observe_dom(s, self.max_elements)
                 handle_known == "handleId" \in Keys(call.arguments)
                                 /\ KnownHandle(o.session, call.arguments["handleId"].s)
                 wants_comments == scope = "comments" \/ self.goal_plan.wants_comments
                 summary == IF handle_known
                                THEN SummaryService_summarize(
                                         [o.observation EXCEPT !.text = "handle text"],
                                         FALSE, gen)
                                ELSE SummaryService_summarize(o.observation, wants_comments, gen)
                 summary_text == IF summary.text # "" THEN summary.text
                                 ELSE summarize_text(o.observation.text)
             IN  Executed(o.session,
                          ToolResult("ok", Payload("summary", "", "", "", summary_text)),
                          FALSE, EmptyObservation, 0, 0, summary.generations)

ExecFind(self, s, call) ==
    IF call.arguments["scope"].s = "web"
        THEN Executed(s, ToolResult("ok", Payload("results", "", "", "", "")),
                      FALSE, EmptyObservation, 0, 1, 0)
    ELSE LET o == observe_dom(s, self.max_elements) IN
         Executed(o.session, ToolResult("ok", Payload("matches", "", "", "", "")),
                  FALSE, EmptyObservation, 0, 0, 0)

execute(self, s, call, fetch_ok, gen) ==
    LET allowed == policy_allows(self, call)
        verdict == TOOL_VALIDATORS(call.name, call.arguments)
    IN  IF ~allowed.ok THEN Failed(s, allowed.err, 0)
        ELSE IF ~verdict.ok THEN Failed(s, verdict.err, 0)
        ELSE CASE call.name = BROWSER_OBSERVE_DOM -> ExecObserveDom(self, s, call)
               [] call.name = BROWSER_CLICK -> ExecClick(self, s, call, fetch_ok)
               [] call.name = BROWSER_TYPE -> ExecType(self, s, call)
               [] call.name = BROWSER_SCROLL -> ExecScroll(self, s, call)
               [] call.name = BROWSER_OPEN_TAB ->
                    Navigated(self, open_tab(s, call.arguments["url"].s, fetch_ok))
               [] call.name = BROWSER_NAVIGATE ->
                    Navigated(self, navigate(s, call.arguments["url"].s, fetch_ok))
               [] call.name = BROWSER_BACK -> Navigated(self, back(s, fetch_ok))
               [] call.name = BROWSER_FORWARD -> Navigated(self, forward(s, fetch_ok))
               [] call.name = BROWSER_REFRESH -> Navigated(self, refresh(s, fetch_ok))
               [] call.name = BROWSER_SELECT -> ExecSelect(self, s, call)
               [] call.name = CONTENT_SUMMARIZE -> ExecSummarize(self, s, call, gen)
               [] call.name = CONTENT_FIND -> ExecFind(self, s, call)

(***************************************************************************)
(* State.                                                                  *)
(*   session   the BrowserSession (tabs, active_index)                     *)
(*   executor  the ToolExecutor in use (mode, max_elements, goal_plan)     *)
(*   lastCall  the ToolCall most recently passed to ToolExecutor.execute   *)
(*   lastExec  its ToolExecutionOutcome and the fetches it made            *)
(*   pre       the session and the executor's mode when lastCall was made  *)
(*   agent     the fields of the Agent object                              *)
(*   run       the locals of Agent.run and its position                    *)
(*   vcall     the (tool, arguments) pair given to a validator             *)
(*   vresult   the validator's verdict on vcall                            *)
(*   arg       the argument of a function applied on its own               *)
(*   ret       the value it returned for arg                               *)
(***************************************************************************)
VARIABLES session, executor, lastCall, lastExec, pre, agent, run, vcall, vresult, arg, ret

NoArg == [kind |-> "none"]
NoRet == [kind |-> "none"]

vars == <<session, executor, lastCall, lastExec, pre, agent, run, vcall, vresult, arg, ret>>

DefaultMaxElements == 4

NoPlan == GoalPlan(NoIndex, FALSE, NoQuery)

NoCall == ToolCall("", EmptyArgs)

NoExec ==
    [result |-> ToolResult("", Payload("", "", "", "", "")), has_observation |-> FALSE,
     observation |-> EmptyObservation, fetches |-> 0, searches |-> 0, generations |-> 0]

Outcome(x) ==
    [result |-> x.result, has_observation |-> x.has_observation,
     observation |-> x.observation, fetches |-> x.fetches, searches |-> x.searches,
     generations |-> x.generations]

Snapshot(s, mode) == [session |-> s, mode |-> mode]

\* The tool calls offered to the executor: for every tool its well-formed
\* calls over the handles and URLs of the model, and calls with an extra
\* key, a missing key and a value of the wrong type.
Args1(k, v) == [x \in {k} |-> v]
Args2(k1, v1, k2, v2) == [x \in {k1, k2} |-> IF x = k1 THEN v1 ELSE v2]
Args3(k1, v1, k2, v2, k3, v3) ==
    [x \in {k1, k2, k3} |-> IF x = k1 THEN v1 ELSE IF x = k2 THEN v2 ELSE v3]

CallHandles == {"laika-1", "laika-3", "laika-9"}
FormHandles == {"laika-1", "laika-9"}
CallUrls == {HN_FRONT, ART1, DEAD}

WellFormedCalls ==
    {ToolCall(BROWSER_OBSERVE_DOM, EmptyArgs),
     ToolCall(BROWSER_SCROLL, Args1("deltaY", JInt(1))),
     ToolCall(BROWSER_BACK, EmptyArgs),
     ToolCall(BROWSER_FORWARD, EmptyArgs),
     ToolCall(BROWSER_REFRESH, EmptyArgs),
     ToolCall(CONTENT_SUMMARIZE, Args1("scope", JStr("page"))),
     ToolCall(CONTENT_SUMMARIZE, Args1("handleId", JStr("laika-1"))),
     ToolCall(CONTENT_FIND, Args2("query", JStr("q"), "scope", JStr("page"))),
     ToolCall(CONTENT_FIND, Args2("query", JStr("q"), "scope", JStr("web")))}
    \cup {ToolCall(BROWSER_CLICK, Args1("handleId", JStr(h))) : h \in CallHandles}
    \cup {ToolCall(BROWSER_TYPE, Args2("handleId", JStr(h), "text", JStr("x"))) :
              h \in FormHandles}
    \cup {ToolCall(BROWSER_SELECT, Args2("handleId", JStr(h), "value", JStr("x"))) :
              h \in FormHandles}
    \cup {ToolCall(BROWSER_OPEN_TAB, Args1("url", JStr(u))) : u \in CallUrls}
    \cup {ToolCall(BROWSER_NAVIGATE, Args1("url", JStr(u))) : u \in CallUrls}

MalformedCalls ==
    {ToolCall(BROWSER_OBSERVE_DOM, Args1("maxElements", JBool(TRUE))),
     ToolCall(BROWSER_CLICK, EmptyArgs),
     ToolCall(BROWSER_CLICK, Args1("handleId", JInt(1))),
     ToolCall(BROWSER_CLICK, Args2("handleId", JStr("laika-9"), "force", JBool(TRUE))),
     ToolCall(BROWSER_TYPE, Args1("handleId", JStr("laika-9"))),
     ToolCall(BROWSER_SELECT, Args2("handleId", JStr("laika-1"), "value", JInt(1))),
     ToolCall(BROWSER_SCROLL, Args1("deltaY", JBool(TRUE))),
     ToolCall(BROWSER_NAVIGATE, Args2("url", JStr(ART1), "newTab", JBool(TRUE))),
     ToolCall(BROWSER_OPEN_TAB, Args1("url", JNull)),
     ToolCall(BROWSER_BACK, Args1("steps", JInt(1))),
     ToolCall(CONTENT_SUMMARIZE, EmptyArgs),
     ToolCall(CONTENT_FIND, Args1("query", JStr("q")))}

Calls == WellFormedCalls \cup MalformedCalls

RECURSIVE HistoryEntries(_, _)
HistoryEntries(tabs, i) ==
    IF i > Len(tabs) THEN 0 ELSE Len(tabs[i].history) + HistoryEntries(tabs, i + 1)

\* The session holds at most MaxTabs tabs and MaxHistory history entries.
WithinBounds(s) ==
    /\ Len(s.tabs) <= MaxTabs
    /\ HistoryEntries(s.tabs, 1) <= MaxHistory

\* The inputs a call reads: the fetch outcome matters to the calls that load
\* a page, the generated text to content.summarize.
FetchOutcomes(call) ==
    IF call.name \in {BROWSER_CLICK, BROWSER_OPEN_TAB, BROWSER_NAVIGATE, BROWSER_BACK,
                      BROWSER_FORWARD, BROWSER_REFRESH}
        THEN BOOLEAN ELSE {TRUE}

Generations(call) == IF call.name = CONTENT_SUMMARIZE THEN GenTexts ELSE {""}

\* Agent.__init__: the agent's fields after construction over browser s.
\* The initial observe_dom also stores the handle map in the active tab.
Agent(s, mode, max_steps, detail_mode) ==
    [mode |-> mode, max_steps |-> max_steps, detail_mode |-> detail_mode,
     observation |-> observe_dom(s, DefaultMaxElements).observation,
     recent_tool_calls |-> <<>>, recent_tool_results |-> <<>>, recent_pages |-> <<>>]

IdleAgent == Agent(BrowserSession, ASSIST, 0, FALSE)

\* A goal text, reduced to what _classify_goal and _should_use_summary_tool
\* read from it:
\*   comment_word     it contains comment, discussion, thread or replies
\*   ordinal_word     the index of an ordinal written as a plain word
\*                    ("first", "3rd"), NoIndex if there is none
\*   escaped_ordinal  the index of an ordinal written between literal
\*                    backslash-b markers, NoIndex if there is none
\*   context_word     it contains topic, story, link, item, post, article
\*                    or result
\*   avoid_word       it contains paragraph, section, sentence or line
\*   quoted           its first quoted phrase, NoQuery if there is none
\*   about            the clause after a literal backslash-b "about"
\*                    marker that survives the page/site/this/current
\*                    filter, NoQuery if there is none
\*   trigger          it contains one of the summary trigger phrases
Goal(comment_word, ordinal_word, escaped_ordinal, context_word, avoid_word, quoted, about, trigger) ==
    [comment_word |-> comment_word, ordinal_word |-> ordinal_word,
     escaped_ordinal |-> escaped_ordinal, context_word |-> context_word,
     avoid_word |-> avoid_word, quoted |-> quoted, about |-> about,
     trigger |-> trigger]

NoGoal == Goal(FALSE, NoIndex, NoIndex, FALSE, FALSE, NoQuery, NoQuery, FALSE)

NoResponse == [summary |-> "", tool_calls |-> <<>>]

\* The locals of Agent.run before it is entered.
IdleRun ==
    [pc |-> "idle", step |-> 0, goal |-> NoGoal, goal_plan |-> NoPlan,
     flow_state |-> [article_seen |-> FALSE, item_navigation_url |-> NoUrl],
     summary |-> "", response_bound |-> FALSE, response |-> NoResponse,
     next_call |-> 1, returned |-> "", executed |-> 0, generated |-> 0,
     forced_hn |-> <<>>, forced_item |-> <<>>]

NoVCall == ToolCall("", EmptyArgs)
NoVerdict == Verdict(FALSE, "unset")

(***************************************************************************)
(* Spec: ToolExecutor.execute driven by arbitrary calls.                   *)
(***************************************************************************)
Init ==
    /\ session = BrowserSession
    /\ \E mode \in SiteMode : executor = ToolExecutor(DefaultMaxElements, mode, NoPlan)
    /\ lastCall = NoCall
    /\ lastExec = NoExec
    /\ pre = Snapshot(BrowserSession, executor.mode)
    /\ agent = IdleAgent
    /\ run = IdleRun
    /\ vcall = NoVCall
    /\ vresult = NoVerdict
    /\ arg = NoArg
    /\ ret = NoRet

\* ToolExecutor.__init__: an executor with another mode over the same browser.
NewExecutor(mode) ==
    /\ mode # executor.mode
    /\ executor' = ToolExecutor(DefaultMaxElements, mode, NoPlan)
    /\ UNCHANGED <<session, lastCall, lastExec, pre, agent, run, vcall, vresult, arg, ret>>

\* ToolExecutor.execute(call).
Execute(call, fetch_ok, gen) ==
    \E x \in {execute(executor, session, call, fetch_ok, gen)} :
    /\ WithinBounds(x.session)
    /\ session' = x.session
    /\ lastCall' = call
    /\ lastExec' = Outcome(x)
    /\ pre' = Snapshot(session, executor.mode)
    /\ UNCHANGED <<executor, agent, run, vcall, vresult, arg, ret>>

Next ==
    \/ \E mode \in SiteMode : NewExecutor(mode)
    \/ \E call \in Calls : \E fetch_ok \in FetchOutcomes(call), gen \in Generations(call) :
           Execute(call, fetch_ok, gen)

Spec == Init /\ [][Next]_vars

(***************************************************************************)
(* Vocabulary of the properties.                                           *)
(***************************************************************************)
GateErrors ==
    {"observe_mode_blocks_tool", "unexpected keys", "missing keys", "invalid type",
     "missing scope or handleId", "scope must be a string", "handleId must be a string",
     "missing query or scope", "query must be a string"}

Error == lastExec.result.payload.error

\* The last call passed the policy gate and the validator and reached its
\* handler.
Handled(name) ==
    /\ lastCall.name = name
    /\ lastExec.result.status # ""
    /\ Error \notin GateErrors

PreHasTab == HasActiveTab(pre.session)
PreTab == active_tab(pre.session)
NowTab == active_tab(session)

\* Only the active tab differs from the session before the call.
OnlyActiveTabChanged ==
    /\ Len(session.tabs) = Len(pre.session.tabs)
    /\ session.active_index = pre.session.active_index
    /\ \A i \in 1..Len(session.tabs) :
           i # session.active_index + 1 => session.tabs[i] = pre.session.tabs[i]

\* The last call loaded a page into the existing active tab with
\* push_history = True (navigate, or click on an anchor) and succeeded.
PushedNavigation ==
    /\ \/ Handled(BROWSER_NAVIGATE)
       \/ Handled(BROWSER_CLICK)
    /\ PreHasTab
    /\ lastExec.fetches = 1
    /\ lastExec.result.status = "ok"

\* C3: a successful navigation keeps the history up to the old history_index,
\* drops every entry after it and appends the new URL; afterwards
\* history_index is the last position and forward() fails without a fetch
\* whatever the fetch outcome; back and forward never change the history
\* sequence and keep the index inside it, so a dropped entry is never reached
\* again.
C3_HistoryTruncation ==
    /\ PushedNavigation =>
          /\ OnlyActiveTabChanged
          /\ NowTab.history =
                 Append(SubSeq(PreTab.history, 1, PreTab.history_index + 1), NowTab.url)
          /\ NowTab.history_index = Len(NowTab.history) - 1
          /\ \A fetch_ok \in BOOLEAN :
                 LET r == BrowserTab_forward(NowTab, fetch_ok) IN
                 ~r.ok /\ r.err = "no forward history" /\ r.tab = NowTab
    /\ (PreHasTab /\ (Handled(BROWSER_BACK) \/ Handled(BROWSER_FORWARD))) =>
          /\ NowTab.history = PreTab.history
          /\ NowTab.history_index \in 0..(Len(NowTab.history) - 1)

\* C3 witness: a navigation succeeded from a non-terminal history position
\* and dropped more than one entry.
C3_Witness ==
    /\ PushedNavigation
    /\ Handled(BROWSER_NAVIGATE)
    /\ PreTab.history_index + 1 < Len(PreTab.history)
    /\ Len(NowTab.history) < Len(PreTab.history)

\* The page-related fields of a tab.
PageOf(tab) ==
    [url |-> tab.url, html |-> tab.html, title |-> tab.title, history |-> tab.history,
     history_index |-> tab.history_index]

\* C4: back() at history_index <= 0 fails with "no back history" and
\* forward() at the last entry fails with "no forward history"; neither makes
\* a fetch and the session is left as it was.
C4_BoundaryFails ==
    /\ (Handled(BROWSER_BACK) /\ PreHasTab /\ PreTab.history_index <= 0) =>
          /\ lastExec.result.status = "error"
          /\ Error = "no back history"
          /\ lastExec.fetches = 0
          /\ ~lastExec.has_observation
          /\ PageOf(NowTab) = PageOf(PreTab)
          /\ session = pre.session
    /\ (Handled(BROWSER_FORWARD) /\ PreHasTab
            /\ PreTab.history_index + 1 >= Len(PreTab.history)) =>
          /\ lastExec.result.status = "error"
          /\ Error = "no forward history"
          /\ lastExec.fetches = 0
          /\ ~lastExec.has_observation
          /\ PageOf(NowTab) = PageOf(PreTab)
          /\ session = pre.session

\* C4 witness: forward() was refused at the end of a history of several
\* entries.
C4_Witness ==
    /\ Handled(BROWSER_FORWARD)
    /\ PreHasTab
    /\ Len(PreTab.history) >= 2
    /\ PreTab.history_index + 1 >= Len(PreTab.history)
    /\ Error = "no forward history"

\* C4 witness for back(): refused at the first entry after going back to it.
C4_WitnessBack ==
    /\ Handled(BROWSER_BACK)
    /\ PreHasTab
    /\ Len(PreTab.history) >= 2
    /\ PreTab.history_index = 0
    /\ Error = "no back history"

\* The last call went back or forward from a position that has an entry in
\* that direction.
MovedInHistory ==
    /\ PreHasTab
    /\ \/ Handled(BROWSER_BACK) /\ PreTab.history_index > 0
       \/ Handled(BROWSER_FORWARD) /\ PreTab.history_index + 1 < Len(PreTab.history)

\* C5 as stated: back() and forward() never fetch, so they cannot end in a
\* fetch failure.
C5_NeverFetch ==
    (Handled(BROWSER_BACK) \/ Handled(BROWSER_FORWARD)) =>
        /\ lastExec.fetches = 0
        /\ Error # "fetch failed"

\* C5 amended: back() and forward() away from a boundary move the history
\* pointer by one and fetch the stored URL exactly once without pushing a
\* history entry; when that fetch succeeds the tab shows the stored URL, when
\* it fails the call ends in "fetch failed" and the page is not replaced.
C5_RefetchWithoutPush ==
    MovedInHistory =>
        /\ lastExec.fetches = 1
        /\ OnlyActiveTabChanged
        /\ NowTab.history = PreTab.history
        /\ NowTab.history_index =
               PreTab.history_index + (IF lastCall.name = BROWSER_BACK THEN -1 ELSE 1)
        /\ lastExec.result.status = "ok" =>
               /\ NowTab.url = NowTab.history[NowTab.history_index + 1]
               /\ NowTab.html = NowTab.url
        /\ lastExec.result.status # "ok" =>
               /\ Error = "fetch failed"
               /\ NowTab.url = PreTab.url
               /\ NowTab.html = PreTab.html
               /\ NowTab.title = PreTab.title

\* C5 witness: a back() away from the boundary ended in a fetch failure.
C5_Witness ==
    /\ MovedInHistory
    /\ lastCall.name = BROWSER_BACK
    /\ Error = "fetch failed"
    /\ lastExec.fetches = 1

\* C6: when the fetch of open_tab(url) fails the call returns a failure with
\* a reason and the session (tab list, active_index) is as before the call.
C6_OpenTabFailure ==
    (Handled(BROWSER_OPEN_TAB) /\ lastExec.result.status = "error") =>
        /\ lastExec.fetches = 1
        /\ Error = "fetch failed"
        /\ ~lastExec.has_observation
        /\ session.tabs = pre.session.tabs
        /\ session.active_index = pre.session.active_index

\* C6 witness: open_tab failed in a session that already had a tab.
C6_Witness ==
    /\ Handled(BROWSER_OPEN_TAB)
    /\ lastExec.result.status = "error"
    /\ Len(pre.session.tabs) >= 1
    /\ Len(session.tabs) < MaxTabs

\* C8: in OBSERVE mode every call of a tool other than browser.observe_dom,
\* with valid or invalid arguments, gets the error
\* "observe_mode_blocks_tool" and no Observation, makes no fetch and leaves
\* the BrowserSession as it was.
C8_ObserveModeGate ==
    (lastCall.name \in ToolName \ {BROWSER_OBSERVE_DOM} /\ pre.mode = OBSERVE) =>
        /\ lastExec.result.status = "error"
        /\ Error = "observe_mode_blocks_tool"
        /\ ~lastExec.has_observation
        /\ lastExec.fetches = 0 /\ lastExec.searches = 0 /\ lastExec.generations = 0
        /\ session = pre.session

\* C8 witness: a type call on a handle of the current page was blocked in
\* OBSERVE mode.
C8_Witness ==
    /\ pre.mode = OBSERVE
    /\ lastCall.name = BROWSER_TYPE
    /\ TOOL_VALIDATORS(lastCall.name, lastCall.arguments).ok
    /\ KnownHandle(pre.session, lastCall.arguments["handleId"].s)
    /\ Error = "observe_mode_blocks_tool"

\* The last call is a click, type or select naming a handle that the active
\* tab's handle map did not hold (or there was no active tab).
UnknownHandleCall ==
    /\ lastCall.name \in {BROWSER_CLICK, BROWSER_TYPE, BROWSER_SELECT}
    /\ "handleId" \in Keys(lastCall.arguments)
    /\ is_string(lastCall.arguments["handleId"])
    /\ ~KnownHandle(pre.session, lastCall.arguments["handleId"].s)

\* C10 as stated: every click, type or select with an unknown handleId gets
\* the error "unknown_handle".
C10_AlwaysUnknownHandle ==
    UnknownHandleCall =>
        /\ lastExec.result.status = "error"
        /\ Error = "unknown_handle"

\* C10 amended: a click, type or select with an unknown handleId never
\* yields an Observation and leaves the session (url, history, form values)
\* as it was; its error is "unknown_handle" when the call is allowed by the
\* policy (ASSIST mode) and its arguments pass validation, otherwise it is
\* the policy's or the validator's error.
C10_UnknownHandle ==
    UnknownHandleCall =>
        /\ lastExec.result.status = "error"
        /\ ~lastExec.has_observation
        /\ lastExec.fetches = 0
        /\ session = pre.session
        /\ Error = (IF pre.mode = OBSERVE THEN "observe_mode_blocks_tool"
                    ELSE IF ~TOOL_VALIDATORS(lastCall.name, lastCall.arguments).ok
                        THEN TOOL_VALIDATORS(lastCall.name, lastCall.arguments).err
                    ELSE "unknown_handle")

\* C10 witness: in ASSIST mode a type call named a handle the loaded page
\* does not have, in a tab that holds a pending form value.
C10_Witness ==
    /\ UnknownHandleCall
    /\ lastCall.name = BROWSER_TYPE
    /\ Error = "unknown_handle"
    /\ PreHasTab
    /\ DOMAIN PreTab.form_values # {}

(***************************************************************************)
(* SpecValidate: the validators applied to arbitrary arguments objects.    *)
(* Every tool is given every arguments object over its declared keys (two  *)
(* of the budget keys stand for browser.observe_dom's ten) and an          *)
(* undeclared key, with values of every JSON type, and the call is then    *)
(* executed in ASSIST mode against an empty and a loaded session.          *)
(***************************************************************************)
SampleValues == {JStr("laika-1"), JInt(1), JFloat(1), JBool(TRUE), JNull}

SampleKeys(name) ==
    CASE name = BROWSER_OBSERVE_DOM -> {"maxElements", "rootHandleId", "extra"}
      [] name = BROWSER_CLICK -> {"handleId", "extra"}
      [] name = BROWSER_TYPE -> {"handleId", "text", "extra"}
      [] name = BROWSER_SCROLL -> {"deltaY", "extra"}
      [] name = BROWSER_OPEN_TAB -> {"url", "extra"}
      [] name = BROWSER_NAVIGATE -> {"url", "extra"}
      [] name = BROWSER_SELECT -> {"handleId", "value", "extra"}
      [] name = CONTENT_SUMMARIZE -> {"scope", "handleId", "extra"}
      [] name = CONTENT_FIND -> {"query", "scope", "extra"}
      [] OTHER -> {"extra"}

ArgumentObjects(keys) == UNION {[K -> SampleValues] : K \in SUBSET keys}

ValidatorInputs ==
    UNION {{ToolCall(name, args) : args \in ArgumentObjects(SampleKeys(name))} :
               name \in ToolName}

LoadedSession == observe_dom(open_tab(BrowserSession, HN_FRONT, TRUE).session,
                             DefaultMaxElements).session

InitValidate ==
    /\ session \in {BrowserSession, LoadedSession}
    /\ executor = ToolExecutor(DefaultMaxElements, ASSIST, NoPlan)
    /\ lastCall = NoCall
    /\ lastExec = NoExec
    /\ pre = Snapshot(session, ASSIST)
    /\ agent = IdleAgent
    /\ run = IdleRun
    /\ vcall \in ValidatorInputs
    /\ vresult = NoVerdict
    /\ arg = NoArg
    /\ ret = NoRet

\* validator(call.arguments) and the call's execution.
Validate ==
    /\ vresult = NoVerdict
    /\ vresult' = TOOL_VALIDATORS(vcall.name, vcall.arguments)
    /\ LET x == execute(executor, session, vcall, TRUE, "grounded") IN
       /\ session' = x.session
       /\ lastExec' = Outcome(x)
    /\ lastCall' = vcall
    /\ pre' = Snapshot(session, executor.mode)
    /\ UNCHANGED <<executor, agent, run, vcall, arg, ret>>

NextValidate == Validate

SpecValidate == InitValidate /\ [][NextValidate]_vars

\* The schema each tool declares (the "Tools:" list of the assist prompt and
\* the key sets of the validators): required keys and optional keys with the
\* type each must have.
ToolSchema(name) ==
    CASE name = BROWSER_OBSERVE_DOM -> [required |-> NoKeys, optional |-> ObserveDomOptional]
      [] name = BROWSER_CLICK ->
            [required |-> [k \in {"handleId"} |-> "is_string"], optional |-> NoKeys]
      [] name = BROWSER_TYPE ->
            [required |-> [k \in {"handleId", "text"} |-> "is_string"], optional |-> NoKeys]
      [] name = BROWSER_SELECT ->
            [required |-> [k \in {"handleId", "value"} |-> "is_string"], optional |-> NoKeys]
      [] name = BROWSER_SCROLL ->
            [required |-> [k \in {"deltaY"} |-> "is_number"], optional |-> NoKeys]
      [] name \in {BROWSER_NAVIGATE, BROWSER_OPEN_TAB} ->
            [required |-> [k \in {"url"} |-> "is_string"], optional |-> NoKeys]
      [] name = CONTENT_SUMMARIZE ->
            [required |-> NoKeys, optional |-> [k \in {"scope", "handleId"} |-> "is_string"]]
      [] name = CONTENT_FIND ->
            [required |-> [k \in {"query", "scope"} |-> "is_string"], optional |-> NoKeys]
      [] OTHER -> [required |-> NoKeys, optional |-> NoKeys]

\* The type a key must have admits a value of the given Python type.
Admits(check, t) ==
    CASE check = "is_string" -> t = "str"
      [] check = "is_int" -> t = "int"
      [] check = "is_number" -> t \in {"int", "float"}

\* The arguments object breaks the tool's schema: an undeclared key, a
\* required key missing, or a required key of the wrong type.
BreaksSchema(name, args) ==
    LET schema == ToolSchema(name) IN
    \/ Keys(args) \ (DOMAIN schema.required \cup DOMAIN schema.optional) # {}
    \/ DOMAIN schema.required \ Keys(args) # {}
    \/ \E k \in DOMAIN schema.required \cap Keys(args) :
           ~Admits(schema.required[k], args[k].t)

Validated == vresult # NoVerdict

\* C9: for every tool, an arguments object with an undeclared key, without a
\* required key, or with a required key of the wrong type (a boolean given
\* for an int or a number included) is rejected by the tool's validator, and
\* the executor then returns the validator's reason without touching the
\* session, whatever the session is.
C9_ValidatorRejects ==
    (Validated /\ BreaksSchema(vcall.name, vcall.arguments)) =>
        /\ ~vresult.ok
        /\ vresult.err # ""
        /\ lastExec.result.status = "error"
        /\ Error = vresult.err
        /\ lastExec.fetches = 0
        /\ session = pre.session

\* C9 witness: browser.scroll was given a boolean deltaY and nothing else,
\* against a loaded session.
C9_Witness ==
    /\ Validated
    /\ vcall = ToolCall(BROWSER_SCROLL, Args1("deltaY", JBool(TRUE)))
    /\ ~vresult.ok
    /\ session = LoadedSession

(***************************************************************************)
(* GoalClassifier and the Agent's helpers.                                 *)
(***************************************************************************)
\* _classify_goal.  The ordinal patterns are raw strings with doubled
\* backslashes, so they match an ordinal only between literal backslash-b
\* markers; the numbered patterns capture a literal backslash-d, whose int()
\* raises ValueError and leaves topic_index None.
classify_goal(goal) ==
    LET wants_comments == goal.comment_word
        found == goal.escaped_ordinal
        item_query == IF goal.quoted # NoQuery THEN goal.quoted ELSE goal.about
        topic_index ==
            IF found = NoIndex THEN NoIndex
            ELSE IF goal.avoid_word THEN NoIndex
            ELSE IF ~goal.context_word /\ ~wants_comments THEN NoIndex
            ELSE found
    IN  IF topic_index = NoIndex /\ ~wants_comments /\ item_query = NoQuery
            THEN GoalPlan(NoIndex, FALSE, NoQuery)
        ELSE GoalPlan(topic_index, wants_comments, item_query)

should_use_summary_tool(goal, goal_plan) ==
    IF goal_plan.wants_comments \/ goal_plan.topic_index # NoIndex
       \/ goal_plan.item_query # NoQuery
        THEN TRUE
    ELSE goal.trigger

\* _needs_structured_summary on the classes of summary text: "structured"
\* carries the expected section headings, "plain" does not.
needs_structured_summary(summary, goal_plan) ==
    IF goal_plan.topic_index = NoIndex /\ goal_plan.item_query = NoQuery THEN FALSE
    ELSE summary # "structured"

\* `normalized_query in _normalize_for_match(title)` on the one-word titles
\* and queries of the model.
QueryMatches(query, title) == query # "" /\ query = title

normalize_url(raw) == rstrip_slash(raw)

\* _is_comment_link_candidate: the label or the href holds a comment keyword.
\* Of the labels of the model only "comments" does, and none of its URLs.
is_comment_link_candidate(title, url) == title = "comments"

Last(seq, n) == IF Len(seq) <= n THEN seq ELSE SubSeq(seq, Len(seq) - n + 1, Len(seq))

RecentToolLimit == 20
RecentPagesLimit == 6

\* _record_tool without the [-20:] slices.
record_tool_Unbounded(self, call, result) ==
    [self EXCEPT !.recent_tool_calls = Append(self.recent_tool_calls, call),
                 !.recent_tool_results = Append(self.recent_tool_results, result)]

record_tool(self, call, result) ==
    [self EXCEPT !.recent_tool_calls = Last(Append(self.recent_tool_calls, call),
                                            RecentToolLimit),
                 !.recent_tool_results = Last(Append(self.recent_tool_results, result),
                                              RecentToolLimit)]

make_page_brief(observation) ==
    [url |-> observation.url, title |-> observation.title, topics |-> observation.topics]

update_observation(self, observation) ==
    [self EXCEPT !.recent_pages =
                     IF self.observation.url # observation.url
                         THEN Last(Append(self.recent_pages,
                                          make_page_brief(self.observation)),
                                   RecentPagesLimit)
                         ELSE self.recent_pages,
                 !.observation = observation]

RECURSIVE LatestPageTopics(_, _)
LatestPageTopics(pages, i) ==
    IF i < 1 THEN <<>>
    ELSE IF pages[i].topics # <<>> THEN pages[i].topics
    ELSE LatestPageTopics(pages, i - 1)

latest_topics(self) ==
    IF self.observation.topics # <<>> THEN self.observation.topics
    ELSE LatestPageTopics(self.recent_pages, Len(self.recent_pages))

\* The index of the first row whose title matches the query, NoIndex if none.
RECURSIVE FirstMatch(_, _, _)
FirstMatch(rows, query, i) ==
    IF i > Len(rows) THEN NoIndex
    ELSE IF QueryMatches(query, rows[i].title) THEN i - 1
    ELSE FirstMatch(rows, query, i + 1)

NavigateCall(url) == ToolCall(BROWSER_NAVIGATE, Args1("url", JStr(url)))

\* The (forced, skip_model) pair of the forced-navigation helpers, and the
\* flow_state they leave.
Forcing(forced, skip_model, flow_state) ==
    [forced |-> forced, skip_model |-> skip_model, flow_state |-> flow_state]

maybe_force_hn_navigation(self, goal_plan, flow_state) ==
    IF self.mode # ASSIST THEN Forcing(NoCall, FALSE, flow_state)
    ELSE
    LET topics == latest_topics(self)
        target_index ==
            IF goal_plan.topic_index = NoIndex /\ goal_plan.item_query # NoQuery
                THEN FirstMatch(topics, goal_plan.item_query, 1)
                ELSE goal_plan.topic_index
    IN  IF target_index = NoIndex THEN Forcing(NoCall, FALSE, flow_state)
        ELSE IF topics = <<>> THEN
            IF ~is_hn_frontpage(self.observation.url)
                THEN Forcing(NavigateCall(HN_FRONT), TRUE, flow_state)
                ELSE Forcing(NoCall, FALSE, flow_state)
        ELSE IF target_index >= Len(topics) THEN Forcing(NoCall, FALSE, flow_state)
        ELSE
        LET topic == topics[target_index + 1]
            topic_url == topic.url
            comments_url == topic.comments_url
            current_url == rstrip_slash(self.observation.url)
        IN  IF topic_url = NoUrl /\ comments_url = NoUrl
                THEN Forcing(NoCall, FALSE, flow_state)
            ELSE IF goal_plan.wants_comments THEN
                IF ~flow_state.article_seen THEN
                    IF topic_url # NoUrl /\ current_url # rstrip_slash(topic_url)
                        THEN Forcing(NavigateCall(topic_url), TRUE, flow_state)
                        ELSE Forcing(NoCall, TRUE,
                                     [flow_state EXCEPT !.article_seen = TRUE])
                ELSE IF comments_url # NoUrl /\ current_url # rstrip_slash(comments_url)
                    THEN Forcing(NavigateCall(comments_url), TRUE, flow_state)
                ELSE Forcing(NoCall, FALSE, flow_state)
            ELSE IF topic_url # NoUrl /\ current_url # rstrip_slash(topic_url)
                THEN Forcing(NavigateCall(topic_url), TRUE, flow_state)
            ELSE Forcing(NoCall, FALSE, flow_state)

\* The URL of the first comment-like link of an item, NoUrl if none.
RECURSIVE FirstCommentLink(_, _)
FirstCommentLink(links, i) ==
    IF i > Len(links) THEN NoUrl
    ELSE IF is_comment_link_candidate(links[i].title, links[i].url) THEN links[i].url
    ELSE FirstCommentLink(links, i + 1)

maybe_force_item_navigation(self, goal_plan, flow_state) ==
    IF goal_plan.topic_index = NoIndex /\ goal_plan.item_query = NoQuery
        THEN Forcing(NoCall, FALSE, flow_state)
    ELSE IF is_hn_url(self.observation.url) THEN Forcing(NoCall, FALSE, flow_state)
    ELSE
    LET items == self.observation.items
        target_position ==
            IF goal_plan.topic_index # NoIndex /\ 0 <= goal_plan.topic_index
               /\ goal_plan.topic_index < Len(items)
                THEN goal_plan.topic_index
            ELSE IF goal_plan.item_query # NoQuery
                THEN FirstMatch(items, goal_plan.item_query, 1)
            ELSE NoIndex
    IN  IF items = <<>> THEN Forcing(NoCall, FALSE, flow_state)
        ELSE IF target_position = NoIndex THEN Forcing(NoCall, FALSE, flow_state)
        ELSE
        LET target == items[target_position + 1]
            comment_link == IF goal_plan.wants_comments
                                THEN FirstCommentLink(target.links, 1) ELSE NoUrl
            target_url == IF comment_link # NoUrl THEN comment_link ELSE target.url
            current_url == normalize_url(self.observation.url)
            target_url_norm == normalize_url(target_url)
        IN  IF target_url = NoUrl THEN Forcing(NoCall, FALSE, flow_state)
            ELSE IF current_url = target_url_norm THEN Forcing(NoCall, FALSE, flow_state)
            ELSE IF flow_state.item_navigation_url = target_url_norm
                THEN Forcing(NoCall, FALSE, flow_state)
            ELSE Forcing(NavigateCall(target_url), TRUE,
                         [flow_state EXCEPT !.item_navigation_url = target_url_norm])

(***************************************************************************)
(* SpecAgent: Agent.run, one action per loop iteration and per statement   *)
(* after the loop.  run.pc is the position in run():                       *)
(*   "idle"    run() has not been called                                   *)
(*   "loop"    at the head of `for step in range(1, max_steps + 1)`        *)
(*   "post"    in `for call in response.tool_calls` after the loop         *)
(*   "done"    run() has returned run.returned                             *)
(*   "raised"  an exception has left run()                                 *)
(* run.executed counts the calls of executor.execute made by the run,      *)
(* run.generated the calls of model.generate.                              *)
(***************************************************************************)
StartPages == {HN_FRONT, LISTP, ART1}

\* main(): the browser with the start page opened, as the Agent's
\* constructor leaves it.
AgentSession(start) ==
    observe_dom(open_tab(BrowserSession, start, TRUE).session, DefaultMaxElements).session

Goals ==
    {Goal(FALSE, NoIndex, NoIndex, TRUE, FALSE, NoQuery, NoQuery, FALSE),
     Goal(FALSE, NoIndex, NoIndex, FALSE, FALSE, NoQuery, NoQuery, TRUE),
     Goal(TRUE, 0, NoIndex, TRUE, FALSE, NoQuery, NoQuery, TRUE),
     Goal(FALSE, NoIndex, 0, TRUE, FALSE, NoQuery, NoQuery, FALSE),
     Goal(TRUE, NoIndex, 0, TRUE, FALSE, NoQuery, NoQuery, FALSE),
     Goal(FALSE, NoIndex, NoIndex, FALSE, FALSE, "one", NoQuery, FALSE),
     Goal(FALSE, NoIndex, NoIndex, FALSE, FALSE, "p1", NoQuery, TRUE)}

\* The tool calls a model response can list.
ModelCalls ==
    {NavigateCall(LISTP), ToolCall(BROWSER_CLICK, Args1("handleId", JStr("laika-1")))}

SeqsUpTo(S, n) == UNION {[1..k -> S] : k \in 0..n}

\* The classes of summary text: empty, without and with the section headings.
SummaryTexts == {"", "plain", "structured"}

\* _parse_model_output(raw_output): the parsed responses of the model.
Responses ==
    {[summary |-> t, tool_calls |-> c] : t \in SummaryTexts,
                                         c \in SeqsUpTo(ModelCalls, MaxToolCalls)}

InitAgent ==
    /\ \E start \in StartPages : session = AgentSession(start)
    /\ \E mode \in SiteMode, max_steps \in 0..MaxStepsBound, detail_mode \in BOOLEAN :
           agent = Agent(session, mode, max_steps, detail_mode)
    /\ executor = ToolExecutor(DefaultMaxElements, agent.mode, NoPlan)
    /\ lastCall = NoCall
    /\ lastExec = NoExec
    /\ pre = Snapshot(session, agent.mode)
    /\ run = IdleRun
    /\ vcall = NoVCall
    /\ vresult = NoVerdict
    /\ arg = NoArg
    /\ ret = NoRet

\* run(goal) up to the head of the loop.
RunStart(goal) ==
    /\ run.pc = "idle"
    /\ LET goal_plan == classify_goal(goal) IN
       /\ executor' = ToolExecutor(DefaultMaxElements, agent.mode, goal_plan)
       /\ run' = [IdleRun EXCEPT !.pc = "loop", !.step = 1, !.goal = goal,
                                 !.goal_plan = goal_plan]
    /\ UNCHANGED <<session, lastCall, lastExec, pre, agent, vcall, vresult, arg, ret>>

AtLoopHead == run.pc = "loop" /\ run.step <= agent.max_steps

ForcedHn == maybe_force_hn_navigation(agent, run.goal_plan, run.flow_state)

ForcedItem == maybe_force_item_navigation(agent, run.goal_plan, run.flow_state)

\* outcome = executor.execute(call); self._record_tool(call, outcome.result);
\* if outcome.observation: self._update_observation(outcome.observation)
ExecuteAndRecord(self, call, x) ==
    LET recorded == record_tool(self, call, x.result)
    IN  IF x.has_observation THEN update_observation(recorded, x.observation)
        ELSE recorded

\* An iteration spent on the forced navigation `forcing`, issued by
\* _maybe_force_hn_navigation (by = "hn") or _maybe_force_item_navigation
\* (by = "item"); forced_hn and forced_item log the URLs issued by each.
ForcedStep(forcing, fetch_ok, by) ==
    \E x \in {execute(executor, session, forcing.forced, fetch_ok, "")} :
    /\ session' = x.session
    /\ agent' = ExecuteAndRecord(agent, forcing.forced, x)
    /\ lastCall' = forcing.forced
    /\ lastExec' = Outcome(x)
    /\ pre' = Snapshot(session, executor.mode)
    /\ run' = [run EXCEPT !.step = @ + 1, !.flow_state = forcing.flow_state,
                          !.executed = @ + 1,
                          !.forced_hn = IF by = "hn"
                                        THEN Append(@, forcing.forced.arguments["url"].s) ELSE @,
                          !.forced_item = IF by = "item"
                                          THEN Append(@, forcing.forced.arguments["url"].s) ELSE @]
    /\ UNCHANGED <<executor, vcall, vresult, arg, ret>>

StepForcedHn(fetch_ok) ==
    /\ AtLoopHead
    /\ \E forcing \in {ForcedHn} :
           /\ forcing.forced # NoCall
           /\ ForcedStep(forcing, fetch_ok, "hn")

\* _maybe_force_hn_navigation returned (None, True): the article counts as
\* seen and the iteration ends.
StepSkip ==
    /\ AtLoopHead
    /\ \E forcing \in {ForcedHn} :
           /\ forcing.forced = NoCall
           /\ forcing.skip_model
           /\ run' = [run EXCEPT !.step = @ + 1, !.flow_state = forcing.flow_state]
    /\ UNCHANGED <<session, executor, lastCall, lastExec, pre, agent, vcall, vresult, arg, ret>>

NotForcedHn ==
    /\ AtLoopHead
    /\ \E forcing \in {ForcedHn} : forcing.forced = NoCall /\ ~forcing.skip_model

StepForcedItem(fetch_ok) ==
    /\ NotForcedHn
    /\ \E forcing \in {ForcedItem} :
           /\ forcing.forced # NoCall
           /\ ForcedStep(forcing, fetch_ok, "item")

NotForced == NotForcedHn /\ ForcedItem.forced = NoCall

SummaryCall ==
    LET scope == IF run.goal_plan.wants_comments THEN "comments"
                 ELSE IF run.goal_plan.topic_index # NoIndex
                         \/ run.goal_plan.item_query # NoQuery THEN "item"
                 ELSE "page"
    IN  ToolCall(CONTENT_SUMMARIZE, Args1("scope", JStr(scope)))

UsesSummaryTool == should_use_summary_tool(run.goal, run.goal_plan)

\* An iteration in which the summary tool answers: run() returns its text.
StepSummary(gen) ==
    \E x \in {execute(executor, session, SummaryCall, TRUE, gen)} :
    /\ NotForced
    /\ UsesSummaryTool
    /\ x.result.payload.summary # ""
    /\ session' = x.session
    /\ agent' = record_tool(agent, SummaryCall, x.result)
    /\ lastCall' = SummaryCall
    /\ lastExec' = Outcome(x)
    /\ pre' = Snapshot(session, executor.mode)
    /\ run' = [run EXCEPT !.pc = "done", !.summary = x.result.payload.summary,
                          !.returned = x.result.payload.summary, !.executed = @ + 1]
    /\ UNCHANGED <<executor, vcall, vresult, arg, ret>>

structured_summary(goal_plan) ==
    IF goal_plan.wants_comments THEN "structured comment summary"
    ELSE "structured topic summary"

\* The second generation _retry_summary makes is read only in detail mode,
\* when the response has neither a summary nor tool calls.
Retries(response) ==
    IF agent.detail_mode /\ response.summary = "" /\ response.tool_calls = <<>>
        THEN SummaryTexts ELSE {""}

\* An iteration that consults the model: the summary tool, if tried, gave no
\* text; then model.generate, and either a return (no tool calls) or the
\* next iteration.
StepModel(response, retry) ==
    \E x \in {execute(executor, session, SummaryCall, TRUE, "")} :
    LET summary == response.summary
        retried == agent.detail_mode /\ summary = "" /\ response.tool_calls = <<>>
        answer ==
            IF summary # "" THEN
                IF agent.detail_mode /\ needs_structured_summary(summary, run.goal_plan)
                    THEN structured_summary(run.goal_plan)
                    ELSE summary
            ELSE IF retried /\ retry # "" THEN
                IF needs_structured_summary(retry, run.goal_plan)
                    THEN structured_summary(run.goal_plan)
                    ELSE retry
            ELSE summary
    IN
    /\ NotForced
    /\ UsesSummaryTool => x.result.payload.summary = ""
    /\ IF UsesSummaryTool
           THEN /\ session' = x.session
                /\ agent' = record_tool(agent, SummaryCall, x.result)
                /\ lastCall' = SummaryCall
                /\ lastExec' = Outcome(x)
                /\ pre' = Snapshot(session, executor.mode)
           ELSE UNCHANGED <<session, agent, lastCall, lastExec, pre>>
    /\ run' = [run EXCEPT
                   !.pc = IF response.tool_calls = <<>> THEN "done" ELSE "loop",
                   !.step = IF response.tool_calls = <<>> THEN @ ELSE @ + 1,
                   !.summary = summary,
                   !.response_bound = TRUE,
                   !.response = response,
                   !.returned = IF response.tool_calls = <<>> THEN answer ELSE @,
                   !.executed = IF UsesSummaryTool THEN @ + 1 ELSE @,
                   !.generated = IF retried THEN @ + 2 ELSE @ + 1]
    /\ UNCHANGED <<executor, vcall, vresult, arg, ret>>

\* The loop is exhausted.  `response` is bound only if an iteration reached
\* model.generate; reading it unbound raises UnboundLocalError.
LoopExit ==
    /\ run.pc = "loop"
    /\ run.step > agent.max_steps
    /\ run' = [run EXCEPT !.pc = IF run.response_bound THEN "post" ELSE "raised",
                          !.next_call = 1]
    /\ UNCHANGED <<session, executor, lastCall, lastExec, pre, agent, vcall, vresult, arg, ret>>

\* One iteration of `for call in response.tool_calls` after the loop.
PostCall(fetch_ok, gen) ==
    /\ run.pc = "post"
    /\ run.next_call <= Len(run.response.tool_calls)
    /\ \E call \in {run.response.tool_calls[run.next_call]} :
       \E x \in {execute(executor, session, call, fetch_ok, gen)} :
           /\ fetch_ok \in FetchOutcomes(call)
           /\ gen \in Generations(call)
           /\ session' = x.session
           /\ agent' = ExecuteAndRecord(agent, call, x)
           /\ lastCall' = call
           /\ lastExec' = Outcome(x)
           /\ pre' = Snapshot(session, executor.mode)
    /\ run' = [run EXCEPT !.next_call = @ + 1, !.executed = @ + 1]
    /\ UNCHANGED <<executor, vcall, vresult, arg, ret>>

\* `return summary` after the loops.
Return ==
    /\ run.pc = "post"
    /\ run.next_call > Len(run.response.tool_calls)
    /\ run' = [run EXCEPT !.pc = "done", !.returned = run.summary]
    /\ UNCHANGED <<session, executor, lastCall, lastExec, pre, agent, vcall, vresult, arg, ret>>

NextAgent ==
    \/ \E goal \in Goals : RunStart(goal)
    \/ \E fetch_ok \in BOOLEAN : StepForcedHn(fetch_ok)
    \/ StepSkip
    \/ \E fetch_ok \in BOOLEAN : StepForcedItem(fetch_ok)
    \/ \E gen \in GenTexts : StepSummary(gen)
    \/ \E response \in Responses : \E retry \in Retries(response) :
           StepModel(response, retry)
    \/ LoopExit
    \/ \E fetch_ok \in BOOLEAN, gen \in GenTexts : PostCall(fetch_ok, gen)
    \/ Return

SpecAgent == InitAgent /\ [][NextAgent]_vars

(***************************************************************************)
(* Properties of Agent.run (SpecAgent).                                    *)
(***************************************************************************)
\* The number of loop iterations the run has completed.
Iterations == IF run.pc = "idle" THEN 0 ELSE run.step - 1

\* The last executed call loaded a page and its fetch failed.
LoadingTools == {BROWSER_NAVIGATE, BROWSER_OPEN_TAB, BROWSER_REFRESH, BROWSER_CLICK}

FetchFailed ==
    /\ lastCall.name \in LoadingTools
    /\ lastExec.fetches > 0
    /\ lastExec.result.status # "ok"

\* C1: Agent.run always returns a string within its step budget: for every
\* goal, every max_steps >= 0, every model behaviour and every fetch outcome
\* it makes at most max_steps loop iterations and never raises, including
\* runs in which every iteration is a forced navigation or a skip and the
\* model is never consulted.
C1_RunAlwaysReturns ==
    /\ Iterations <= agent.max_steps
    /\ run.pc # "raised"

\* C2: the Agent executes at most one tool call per loop step, hence at most
\* max_steps tool calls in a run; of the entries of a response's tool_calls
\* at most one is executed.
C2_OneToolCallPerStep ==
    /\ run.executed <= agent.max_steps
    /\ run.pc \in {"post", "done"} => run.next_call - 1 <= 1

\* C7: a fetch failure in a tool that loads a page is attempted exactly once
\* and surfaces as an error ToolResult carrying the reason, with no
\* Observation; no exception leaves ToolExecutor.execute or Agent.run.
C7_FetchFailureSurfaces ==
    FetchFailed =>
        /\ lastExec.fetches = 1
        /\ lastExec.result.status = "error"
        /\ lastExec.result.payload.error # ""
        /\ ~lastExec.has_observation
        /\ run.pc # "raised"

(***************************************************************************)
(* Stale handles (Spec).                                                   *)
(***************************************************************************)
\* The handle ids of the Observation the executor returned when the tab
\* loaded `page`.
HandlesIssuedFor(page) ==
    DOMAIN parse_observation(page, page, DefaultMaxElements).element_map

\* The last call was an admitted, well-formed click, type or select whose
\* handleId was issued in the Observation of a page the tab has left: a page
\* of the tab's history other than the page it shows now.
StaleHandleCall ==
    /\ lastCall.name \in {BROWSER_CLICK, BROWSER_TYPE, BROWSER_SELECT}
    /\ pre.mode = ASSIST
    /\ TOOL_VALIDATORS(lastCall.name, lastCall.arguments).ok
    /\ PreHasTab
    /\ \E i \in 1..Len(PreTab.history) :
           /\ PreTab.history[i] # PreTab.url
           /\ lastCall.arguments["handleId"].s \in HandlesIssuedFor(PreTab.history[i])

\* C11: a handleId issued in the Observation of page P is rejected once the
\* tab has navigated to another page Q: a click, type or select using it
\* returns the error "unknown_handle" and does not act on an element of Q.
C11_StaleHandleRejected ==
    StaleHandleCall =>
        /\ lastExec.result.status = "error"
        /\ Error = "unknown_handle"
        /\ session = pre.session

(***************************************************************************)
(* The end-to-end comments flow (SpecAgent).                               *)
(***************************************************************************)
\* --max-steps default of the command line.
DefaultMaxSteps == 6

\* "summarize comments on the first topic": comments vocabulary, the plain
\* word "first", the content noun "topic" and the trigger "summarize".
CommentsOnFirstTopic == Goal(TRUE, 0, NoIndex, TRUE, FALSE, NoQuery, NoQuery, TRUE)

\* The run began on `page`: the first entry of the first tab's history.
StartedOn(page) ==
    /\ Len(session.tabs) >= 1
    /\ Len(session.tabs[1].history) >= 1
    /\ session.tabs[1].history[1] = page

\* No fetch of the run failed.
AllFetchesSucceeded ==
    \A i \in 1..Len(agent.recent_tool_results) :
        agent.recent_tool_results[i].payload.error # "fetch failed"

\* The run executed browser.navigate(url) as its i-th tool call.
NavigatedAt(i, url) ==
    /\ i \in 1..Len(agent.recent_tool_calls)
    /\ agent.recent_tool_calls[i] = NavigateCall(url)

\* C12: in ASSIST mode on the front page with 3 topics, with every fetch
\* succeeding and the default budget of 6 steps, the goal "summarize comments
\* on the first topic" makes the run navigate to topic 1's URL, then to its
\* comments URL, and then return a non-empty answer; the comments URL is
\* never navigated to before the topic URL.
C12_CommentsFlow ==
    (/\ run.pc = "done"
     /\ run.goal = CommentsOnFirstTopic
     /\ agent.mode = ASSIST
     /\ agent.max_steps = DefaultMaxSteps
     /\ StartedOn(HN_FRONT)
     /\ AllFetchesSucceeded) =>
        /\ \E i, j \in 1..Len(agent.recent_tool_calls) :
               i < j /\ NavigatedAt(i, ART1) /\ NavigatedAt(j, HN_ITEM1)
        /\ \A j \in 1..Len(agent.recent_tool_calls) :
               NavigatedAt(j, HN_ITEM1) => \E i \in 1..(j - 1) : NavigatedAt(i, ART1)
        /\ run.returned # ""

(***************************************************************************)
(* SpecClassify: _classify_goal applied to every combination of the goal   *)
(* features.                                                               *)
(***************************************************************************)
OrdinalWords == {NoIndex, 0, 1, 2}
EscapedOrdinals == {NoIndex, 0, 1}
GoalQueries == {NoQuery, "one"}

GoalTexts ==
    {Goal(c, o, e, x, a, q, b, t) :
        c \in BOOLEAN, o \in OrdinalWords, e \in EscapedOrdinals, x \in BOOLEAN,
        a \in BOOLEAN, q \in GoalQueries, b \in GoalQueries, t \in BOOLEAN}

InitClassify ==
    /\ session = BrowserSession
    /\ executor = ToolExecutor(DefaultMaxElements, ASSIST, NoPlan)
    /\ lastCall = NoCall
    /\ lastExec = NoExec
    /\ pre = Snapshot(BrowserSession, ASSIST)
    /\ agent = IdleAgent
    /\ \E goal \in GoalTexts : run = [IdleRun EXCEPT !.goal = goal]
    /\ vcall = NoVCall
    /\ vresult = NoVerdict
    /\ arg = NoArg
    /\ ret = NoRet

\* goal_plan = _classify_goal(goal)
Classify ==
    /\ run.pc = "idle"
    /\ run' = [run EXCEPT !.pc = "classified", !.goal_plan = classify_goal(run.goal)]
    /\ UNCHANGED <<session, executor, lastCall, lastExec, pre, agent, vcall, vresult, arg, ret>>

NextClassify == Classify

SpecClassify == InitClassify /\ [][NextClassify]_vars

Classified == run.pc = "classified"

\* "open the third topic's comments" and "summarize the second paragraph".
OpenThirdTopicComments == Goal(TRUE, 2, NoIndex, TRUE, FALSE, NoQuery, NoQuery, FALSE)
SummarizeSecondParagraph == Goal(FALSE, 1, NoIndex, FALSE, TRUE, NoQuery, NoQuery, TRUE)

\* C13: a goal with an ordinal word and a content noun or comments
\* vocabulary, and none of paragraph/section/sentence/line, is classified
\* with topic_index = ordinal - 1 ("open the third topic's comments" gives
\* topic_index 2 and wants_comments); a goal whose ordinal accompanies
\* paragraph/section/sentence/line and that has no comments vocabulary and no
\* quoted or about query gets the default plan.
C13_OrdinalTargets ==
    Classified =>
        /\ (/\ run.goal.ordinal_word # NoIndex
            /\ run.goal.context_word \/ run.goal.comment_word
            /\ ~run.goal.avoid_word) =>
               /\ run.goal_plan.topic_index = run.goal.ordinal_word
               /\ run.goal_plan.wants_comments = run.goal.comment_word
        /\ run.goal = OpenThirdTopicComments => run.goal_plan = GoalPlan(2, TRUE, NoQuery)
        /\ run.goal = SummarizeSecondParagraph => run.goal_plan = NoPlan

(***************************************************************************)
(* SpecSummary: SummaryService.summarize on a LIST SummaryInput.           *)
(*                                                                         *)
(* A text is a sequence of tokens (words and punctuation marks), a         *)
(* SummaryInput's text a sequence of lines.  Substring tests are made on   *)
(* token sequences.  The 9000 character cut of _build_from_items is out of *)
(* reach of the titles used here.                                          *)
(***************************************************************************)
MaxListItems == 10
MaxAnchors == 8
MaxPreview == 5
PrefixTokens == 6

DotSpace == ". "
Hyphen == "-"
Numerals == <<"1", "2", "3", "4", "5", "6", "7", "8", "9", "10", "11", "12">>
Names == <<"Alpha", "Beta", "Gamma", "Delta", "Eps", "Zeta", "Eta", "Theta", "Iota", "Kappa", "Lambda", "Mu">>
LowerNames == <<"alpha", "beta", "gamma", "delta", "eps", "zeta", "eta", "theta", "iota", "kappa", "lambda", "mu">>

has_digit(token) == \E i \in 1..Len(Numerals) : Numerals[i] = token

\* str.isalnum() of the token's characters: punctuation leaves nothing.
is_alnum(token) == token \notin {DotSpace, Hyphen, ";", "Title:", "Item count:"}

\* str.lower()
lower(token) ==
    IF \E i \in 1..Len(Names) : Names[i] = token
    THEN LowerNames[CHOOSE i \in 1..Len(Names) : Names[i] = token]
    ELSE IF token = "Top" THEN "top" ELSE IF token = "Best" THEN "best" ELSE token

Lowered(text) == [i \in 1..Len(text) |-> lower(text[i])]

normalize_for_match(text) == Lowered(SelectSeq(text, is_alnum))

\* needle in hay
Contains(hay, needle) ==
    \E i \in 0..(Len(hay) - Len(needle)) : SubSeq(hay, i + 1, i + Len(needle)) = needle

\* position of the first occurrence of token in text, 0 when absent
FirstIndex(text, token) ==
    IF \E i \in 1..Len(text) : text[i] = token
    THEN CHOOSE i \in 1..Len(text) : text[i] = token /\ \A j \in 1..(i - 1) : text[j] # token
    ELSE 0

Before(text, token) ==
    IF FirstIndex(text, token) = 0 THEN text ELSE SubSeq(text, 1, FirstIndex(text, token) - 1)

After(text, token) == SubSeq(text, FirstIndex(text, token) + 1, Len(text))

Take(seq, n) == SubSeq(seq, 1, IF Len(seq) < n THEN Len(seq) ELSE n)

\* _extract_list_title; <<>> stands for None.
extract_list_title(line) ==
    IF FirstIndex(line, DotSpace) = 0 THEN <<>>
    ELSE IF ~\E i \in 1..Len(Before(line, DotSpace)) : has_digit(Before(line, DotSpace)[i]) THEN <<>>
    ELSE Before(After(line, DotSpace), Hyphen)

ObservedItem(title, snippet) == [title |-> title, snippet |-> snippet]

\* the line of the display_index-th titled item
ItemLine(display_index, item) ==
    <<Numerals[display_index], DotSpace>> \o item.title
        \o (IF item.snippet = <<>> THEN <<>> ELSE <<Hyphen>> \o item.snippet)

Titled(items) == SelectSeq(items, LAMBDA item : item.title # <<>>)

SummaryInput(kind, text, used_items) == [kind |-> kind, text |-> text, used_items |-> used_items]

\* SummaryInputBuilder._build_from_items
build_from_items(page_title, items) ==
    SummaryInput("list",
                 (IF page_title = <<>> THEN <<>> ELSE <<<<"Title:">> \o page_title>>)
                     \o <<<<"Item count:", Numerals[Len(items)]>>>>
                     \o [i \in 1..Len(Titled(Take(items, 24))) |-> ItemLine(i, Titled(Take(items, 24))[i])],
                 Len(Titled(Take(items, 24))))

ListTitles(lines) ==
    SelectSeq([i \in 1..Len(lines) |-> extract_list_title(lines[i])], LAMBDA title : title # <<>>)

\* SummaryService._extract_anchors, kind LIST
extract_anchors(input_data) == Take(ListTitles(input_data.text), MaxAnchors)

AnchorMatches(normalized_summary, normalized_anchor) ==
    /\ normalized_anchor # <<>>
    /\ \/ Contains(normalized_summary, normalized_anchor)
       \/ /\ Len(normalized_anchor) >= 3
          /\ Contains(normalized_summary, Take(normalized_anchor, PrefixTokens))

\* SummaryService._count_anchor_matches
count_anchor_matches(summary, anchors) ==
    Cardinality({i \in 1..Len(anchors) :
        AnchorMatches(normalize_for_match(summary), normalize_for_match(anchors[i]))})

Max(a, b) == IF a > b THEN a ELSE b
Min(a, b) == IF a < b THEN a ELSE b

\* a grounding requirement of a single anchor
required_anchor_count_One(input_data) == 1

\* SummaryService._required_anchor_count, kind LIST
required_anchor_count(input_data) == Max(2, Min(5, input_data.used_items))

Banned == {"untrusted"}

\* SummaryService._validate_summary
ValidateSummary(summary, input_data) ==
    IF summary = <<>> THEN FALSE
    ELSE IF \E i \in 1..Len(summary) : summary[i] \in Banned THEN FALSE
    ELSE IF extract_anchors(input_data) = <<>> THEN TRUE
    ELSE count_anchor_matches(summary, extract_anchors(input_data)) >= required_anchor_count(input_data)

LimitedContent == <<"Not", "stated", "in", "the", "page">>

RECURSIVE JoinTitles(_)
JoinTitles(titles) ==
    IF titles = <<>> THEN <<>>
    ELSE IF Len(titles) = 1 THEN titles[1]
    ELSE titles[1] \o <<";">> \o JoinTitles(Tail(titles))

\* SummaryService._fallback_summary, kind LIST.  Without list titles the
\* source looks for sentences of 24 characters or more in the lines; the
\* item lines built here are shorter, so the result is then
\* _limited_content_response.
fallback_summary(input_data) ==
    IF ListTitles(input_data.text) # <<>>
    THEN <<"The", "page", "lists", "items", "such", "as">>
            \o JoinTitles(Take(ListTitles(input_data.text), MaxPreview))
    ELSE LimitedContent

\* SummaryService._has_meaningful_content: some line is not a metadata line
HasMeaningfulContent(input_data) ==
    \E i \in 1..Len(input_data.text) : input_data.text[i][1] \notin {"Title:", "Item count:"}

\* SummaryService.summarize from the sanitized model output on
Summarize(input_data, cleaned) ==
    IF ~HasMeaningfulContent(input_data) THEN [how |-> "limited", text |-> LimitedContent]
    ELSE IF ValidateSummary(cleaned, input_data) THEN [how |-> "model", text |-> cleaned]
    ELSE [how |-> "fallback", text |-> fallback_summary(input_data)]

TitleKinds == {"hyphen", "dash", "long", "blank"}

\* the title of the i-th item: a name, a name with a hyphenated suffix, a
\* name after a leading hyphen, a title of seven words, or no title
Title(kind, i) ==
    CASE kind = "plain" -> <<Names[i]>>
      [] kind = "hyphen" -> <<Names[i], Hyphen, "x">>
      [] kind = "dash" -> <<Hyphen, Names[i]>>
      [] kind = "long" -> <<Names[i], "two", "three", "four", "five", "six", "seven">>
      [] OTHER -> <<>>

\* n items, the first p of the given kind and the others plain
Items(n, p, kind, snippet) ==
    [i \in 1..n |-> ObservedItem(Title(IF i <= p THEN kind ELSE "plain", i), snippet)]

PageTitles == {<<"News">>, <<"Top", "10", DotSpace, "Best">>}
Snippets == {<<>>, <<"snip">>}
Styles == {"verbatim", "lowered", "cut"}

\* how a summary words an item: its title, its title in lower case, or the
\* first words of the title up to a hyphen
Phrase(title, style) ==
    CASE style = "verbatim" -> title
      [] style = "lowered" -> Lowered(title)
      [] OTHER -> Take(Before(title, Hyphen), PrefixTokens)

RECURSIVE Mentions(_, _, _, _)
Mentions(items, lo, hi, style) ==
    IF lo > hi THEN <<>>
    ELSE <<"and">> \o Phrase(items[lo].title, style) \o Mentions(items, lo + 1, hi, style)

\* sanitized model outputs: empty, leaking a banned phrase, or an overview
\* wording the items lo..hi
CleanedTexts(items) ==
    {<<>>, <<"untrusted", "content">>}
        \cup {<<"Overview">> \o Mentions(items, lo, hi, style) :
                lo \in 1..2, hi \in 0..Len(items), style \in Styles}

ListArg(page_title, items, cleaned) ==
    [kind |-> "list", page_title |-> page_title, items |-> items, cleaned |-> cleaned]

\* _is_list_observation asks for three items at least
MinListItems == 3

InitSummary ==
    /\ session = BrowserSession
    /\ executor = ToolExecutor(DefaultMaxElements, ASSIST, NoPlan)
    /\ lastCall = NoCall
    /\ lastExec = NoExec
    /\ pre = Snapshot(BrowserSession, ASSIST)
    /\ agent = IdleAgent
    /\ run = IdleRun
    /\ vcall = NoVCall
    /\ vresult = NoVerdict
    /\ \E n \in MinListItems..MaxListItems, kind \in TitleKinds, snippet \in Snippets, page_title \in PageTitles :
         \E p \in 0..n :
           \E cleaned \in CleanedTexts(Items(n, p, kind, snippet)) :
              arg = ListArg(page_title, Items(n, p, kind, snippet), cleaned)
    /\ ret = NoRet

SummaryRet(input_data, outcome) ==
    [kind |-> "summary", input_data |-> input_data, how |-> outcome.how, text |-> outcome.text]

\* SummaryService.summarize(context, goal_plan, user_goal) on a list page
SummarizeList ==
    /\ arg.kind = "list"
    /\ ret = NoRet
    /\ \E input_data \in {build_from_items(arg.page_title, arg.items)} :
         ret' = SummaryRet(input_data, Summarize(input_data, arg.cleaned))
    /\ UNCHANGED <<session, executor, lastCall, lastExec, pre, agent, run, vcall, vresult, arg>>

NextSummary == SummarizeList

SpecSummary == InitSummary /\ [][NextSummary]_vars

Summarized == ret.kind = "summary"

\* the titles of the items, and those a summary contains
ItemTitles == {i \in 1..Len(arg.items) : arg.items[i].title # <<>>}
ParsedTitles == ListTitles(ret.input_data.text)
TitlesMatched ==
    {i \in 1..Len(ParsedTitles) :
        /\ normalize_for_match(ParsedTitles[i]) # <<>>
        /\ Contains(normalize_for_match(arg.cleaned), normalize_for_match(ParsedTitles[i]))}
AnchorsMatched ==
    {i \in 1..Len(Take(ParsedTitles, MaxAnchors)) :
        AnchorMatches(normalize_for_match(arg.cleaned), normalize_for_match(ParsedTitles[i]))}
RequiredAnchors == Max(2, Min(5, ret.input_data.used_items))

C15_FallbackMentionsTitles ==
    (Summarized /\ ret.how = "fallback") =>
        Cardinality({i \in ItemTitles : Contains(ret.text, arg.items[i].title)})
            >= Min(5, Cardinality(ItemTitles))

(***************************************************************************)
(* SpecObserve: the budgets of _parse_observation.                         *)
(*                                                                         *)
(* A page is described by sizes: each section of the markup (elements,     *)
(* blocks, outline, items, comments) has page.entries candidates whose     *)
(* text is page.chars characters long, and a Hacker News page has          *)
(* page.topics story rows and page.hn_comments comment rows on top.  An    *)
(* Observation is described by the number of entries and the longest text  *)
(* of each of its fields.                                                  *)
(***************************************************************************)
SmallCount == 1
SmallChars == 35
ManyEntries == 60
ShortText == 40
LongText == 13000

EXECUTOR_MAX_CHARS == 12000
EXECUTOR_MAX_ELEMENTS == 120
DEFAULT_MAX_BLOCKS == 30
DEFAULT_MAX_PRIMARY_CHARS == 1200
DEFAULT_MAX_OUTLINE == 50
DEFAULT_MAX_OUTLINE_CHARS == 160
DEFAULT_MAX_ITEMS == 24
DEFAULT_MAX_ITEM_CHARS == 240
DEFAULT_MAX_COMMENTS == 24
DEFAULT_MAX_COMMENT_CHARS == 360

\* the length of "N points | M comments"
TopicSnippetChars == 24
MinBlockChars == 30
MinOutlineChars == 3
MinCommentChars == 30

CountKeys == {"maxElements", "maxBlocks", "maxOutline", "maxItems", "maxComments"}
CharKeys == {"maxChars", "maxPrimaryChars", "maxOutlineChars", "maxItemChars", "maxCommentChars"}
BudgetKeys == CountKeys \cup CharKeys

DefaultBudget(key) ==
    CASE key = "maxChars" -> EXECUTOR_MAX_CHARS
      [] key = "maxElements" -> EXECUTOR_MAX_ELEMENTS
      [] key = "maxBlocks" -> DEFAULT_MAX_BLOCKS
      [] key = "maxPrimaryChars" -> DEFAULT_MAX_PRIMARY_CHARS
      [] key = "maxOutline" -> DEFAULT_MAX_OUTLINE
      [] key = "maxOutlineChars" -> DEFAULT_MAX_OUTLINE_CHARS
      [] key = "maxItems" -> DEFAULT_MAX_ITEMS
      [] key = "maxItemChars" -> DEFAULT_MAX_ITEM_CHARS
      [] key = "maxComments" -> DEFAULT_MAX_COMMENTS
      [] OTHER -> DEFAULT_MAX_COMMENT_CHARS

\* int(call.arguments.get(key) or default)
BudgetsOf(arguments) ==
    [key \in BudgetKeys |->
        IF key \in DOMAIN arguments /\ arguments[key] # 0 THEN arguments[key] ELSE DefaultBudget(key)]

\* _budget_text, on lengths
budget_text(chars, max_chars) ==
    IF max_chars <= 0 \/ chars <= max_chars THEN chars ELSE max_chars

\* len(seq[:limit])
Sliced(n, limit) == IF limit >= 0 THEN Min(n, limit) ELSE Max(n + limit, 0)

Section(n, chars) == [n |-> n, chars |-> IF n = 0 THEN 0 ELSE chars]

\* text = text[:max_chars] if max_chars > 0
page_text(page, max_chars) ==
    IF max_chars > 0 THEN Min(page.chars, max_chars) ELSE page.chars

\* the element loop: stops once handles >= max_elements
collect_elements(page, max_elements) ==
    IF max_elements <= 0 THEN 0 ELSE Min(page.entries, max_elements)

\* _collect_text_blocks: the blocks (each cut at 420) and the primary text
collect_text_blocks(page, max_blocks) ==
    IF page.chars < MinBlockChars THEN Section(0, 0)
    ELSE Section(Sliced(page.entries, max_blocks), budget_text(page.chars, 420))

collect_primary(page, max_primary_chars) ==
    IF page.chars < MinBlockChars \/ page.entries = 0 THEN 0
    ELSE budget_text(page.chars, max_primary_chars)

\* _collect_outline
collect_outline(page, max_items, max_chars) ==
    IF page.chars < MinOutlineChars THEN Section(0, 0)
    ELSE Section(Sliced(page.entries, max_items), budget_text(page.chars, max_chars))

\* _collect_items
collect_items(page, max_items, max_chars) ==
    Section(Sliced(page.entries, max_items), budget_text(page.chars, max_chars))

\* _collect_comments
collect_comments(page, max_comments, max_chars) ==
    IF max_comments <= 0 \/ budget_text(page.chars, max_chars) < MinCommentChars THEN Section(0, 0)
    ELSE Section(Min(page.entries, max_comments), budget_text(page.chars, max_chars))

\* items = _hn_topics_to_items(topics) when the page has topics
page_items(page, max_items, max_chars) ==
    IF page.site # "plain" /\ page.topics > 0
    THEN Section(page.topics, TopicSnippetChars)
    ELSE collect_items(page, max_items, max_chars)

\* comments = the story's comment rows when the item page has any
page_comments(page, max_comments, max_chars) ==
    IF page.site = "hn_item" /\ page.topics > 0 /\ page.hn_comments > 0
    THEN Section(page.hn_comments, page.chars)
    ELSE collect_comments(page, max_comments, max_chars)

\* _parse_observation(url, html, max_chars, max_elements, max_blocks=...)
parse_budgeted(page, b) ==
    [text |-> page_text(page, b["maxChars"]),
     elements |-> collect_elements(page, b["maxElements"]),
     blocks |-> collect_text_blocks(page, b["maxBlocks"]),
     primary |-> collect_primary(page, b["maxPrimaryChars"]),
     outline |-> collect_outline(page, b["maxOutline"], b["maxOutlineChars"]),
     items |-> page_items(page, b["maxItems"], b["maxItemChars"]),
     comments |-> page_comments(page, b["maxComments"], b["maxCommentChars"])]

SizedPage(site, entries, chars, topics, hn_comments) ==
    [site |-> site, entries |-> entries, chars |-> chars, topics |-> topics, hn_comments |-> hn_comments]

EntryCounts == {0, 2, ManyEntries}
TextLengths == {ShortText, LongText}

SizedPages ==
    {SizedPage("plain", n, c, 0, 0) : n \in EntryCounts, c \in TextLengths}
        \cup {SizedPage("hn_front", n, c, t, 0) : n \in EntryCounts, c \in TextLengths, t \in EntryCounts}
        \cup {SizedPage("hn_item", n, c, t, k) :
                n \in EntryCounts, c \in TextLengths, t \in 0..1, k \in EntryCounts}

\* the per-call overrides of browser.observe_dom
Overrides ==
    {[key \in keys |-> IF key \in CountKeys THEN SmallCount ELSE SmallChars] : keys \in SUBSET BudgetKeys}

ObserveArg(page, arguments) == [kind |-> "observe", page |-> page, arguments |-> arguments]

InitObserve ==
    /\ session = BrowserSession
    /\ executor = ToolExecutor(DefaultMaxElements, ASSIST, NoPlan)
    /\ lastCall = NoCall
    /\ lastExec = NoExec
    /\ pre = Snapshot(BrowserSession, ASSIST)
    /\ agent = IdleAgent
    /\ run = IdleRun
    /\ vcall = NoVCall
    /\ vresult = NoVerdict
    /\ \E page \in SizedPages, arguments \in Overrides : arg = ObserveArg(page, arguments)
    /\ ret = NoRet

\* ToolExecutor.execute(browser.observe_dom) on the page of the active tab
ObserveDom ==
    /\ arg.kind = "observe"
    /\ ret = NoRet
    /\ ret' = [kind |-> "observation",
               budgets |-> BudgetsOf(arg.arguments),
               observation |-> parse_budgeted(arg.page, BudgetsOf(arg.arguments))]
    /\ UNCHANGED <<session, executor, lastCall, lastExec, pre, agent, run, vcall, vresult, arg>>

NextObserve == ObserveDom

SpecObserve == InitObserve /\ [][NextObserve]_vars

Observed == ret.kind = "observation"

\* C16: every text field of the Observation is within its character budget
\* and every list within its count budget, whatever the page and the
\* overrides of the call.
C16_WithinBudgets ==
    Observed =>
        /\ ret.observation.text <= ret.budgets["maxChars"]
        /\ ret.observation.primary <= ret.budgets["maxPrimaryChars"]
        /\ ret.observation.outline.chars <= ret.budgets["maxOutlineChars"]
        /\ ret.observation.items.chars <= ret.budgets["maxItemChars"]
        /\ ret.observation.comments.chars <= ret.budgets["maxCommentChars"]
        /\ ret.observation.elements <= ret.budgets["maxElements"]
        /\ ret.observation.blocks.n <= ret.budgets["maxBlocks"]
        /\ ret.observation.outline.n <= ret.budgets["maxOutline"]
        /\ ret.observation.items.n <= ret.budgets["maxItems"]
        /\ ret.observation.comments.n <= ret.budgets["maxComments"]

\* the same on pages that are not Hacker News pages (the overrides drawn
\* here are positive)
C16_PlainPagesWithinBudgets == (Observed /\ arg.page.site = "plain") => C16_WithinBudgets

(***************************************************************************)
(* SpecHandles: BrowserSession.observe_dom on the active tab of a session  *)
(* of one or two tabs, under every max_elements.                           *)
(***************************************************************************)
OneTabSessions ==
    {open_tab(BrowserSession, url, fetch_ok).session : url \in Pages, fetch_ok \in BOOLEAN}

TabSessions ==
    OneTabSessions
        \cup {open_tab(s, url, TRUE).session : s \in OneTabSessions, url \in Pages}

InitHandles ==
    /\ session \in TabSessions
    /\ executor = ToolExecutor(DefaultMaxElements, ASSIST, NoPlan)
    /\ lastCall = NoCall
    /\ lastExec = NoExec
    /\ pre = Snapshot(BrowserSession, ASSIST)
    /\ agent = IdleAgent
    /\ run = IdleRun
    /\ vcall = NoVCall
    /\ vresult = NoVerdict
    /\ arg = NoArg
    /\ ret = NoRet

\* BrowserSession.observe_dom(max_chars, max_elements)
ObserveHandles(max_elements) ==
    /\ \E o \in {observe_dom(session, max_elements)} :
         /\ session' = o.session
         /\ ret' = [kind |-> "handles", observation |-> o.observation]
    /\ arg' = [kind |-> "handles", max_elements |-> max_elements]
    /\ UNCHANGED <<executor, lastCall, lastExec, pre, agent, run, vcall, vresult>>

NextHandles == \E max_elements \in 0..DefaultMaxElements : ObserveHandles(max_elements)

SpecHandles == InitHandles /\ [][NextHandles]_vars

\* the tags _parse_observation keeps: anchors need a URL, anchors and
\* buttons a label
KeptTag(tag) ==
    /\ ~(tag.role = "a" /\ tag.href = NoUrl)
    /\ ~(~tag.labelled /\ tag.role \in {"a", "button"})

KeptTags(html) == SelectSeq(PageOfHtml(html).tags, KeptTag)

ObservedTab == ret.kind = "handles" /\ HasActiveTab(session)

\* C17: in the Observation observe_dom returns, the handle ids are laika-1
\* .. laika-n with n <= max_elements, given in document order to the kept
\* tags only, and the handle map stored with it has exactly these n keys,
\* each mapped to the element carrying the id.
C17_SequentialHandles ==
    ObservedTab =>
        /\ Len(ret.observation.elements) = Min(Len(KeptTags(NowTab.html)), arg.max_elements)
        /\ \A i \in 1..Len(ret.observation.elements) :
              /\ ret.observation.elements[i].handle_id = HandleIds[i]
              /\ ret.observation.elements[i].role = KeptTags(NowTab.html)[i].role
              /\ ret.observation.elements[i].href = KeptTags(NowTab.html)[i].href
              /\ NowTab.element_map[HandleIds[i]] = ret.observation.elements[i]
        /\ \A i, j \in 1..Len(ret.observation.elements) :
              i # j => ret.observation.elements[i].handle_id # ret.observation.elements[j].handle_id
        /\ DOMAIN NowTab.element_map = {HandleIds[i] : i \in 1..Len(ret.observation.elements)}

\* an Observation cut by max_elements on a page with a skipped tag
C17_Witness ==
    /\ ObservedTab
    /\ Len(ret.observation.elements) = 2
    /\ Len(KeptTags(NowTab.html)) > 2
    /\ Len(PageOfHtml(NowTab.html).tags) > Len(KeptTags(NowTab.html))
    /\ DOMAIN NowTab.element_map = {"laika-1", "laika-2"}

(***************************************************************************)
(* Tool calls requested by the model, and forced navigation (SpecAgent).   *)
(***************************************************************************)
\* the iteration of step k consulted the model and the response holds a tool
\* call
ModelAskedForTool ==
    /\ run.pc = "loop"
    /\ run'.pc = "loop"
    /\ run'.generated > run.generated
    /\ run'.response.tool_calls # <<>>

\* C18: when the response of step k < max_steps contains a tool call, the
\* call is executed and its result recorded during step k, so that step k+1
\* starts from the resulting Observation with the call at the end of the
\* recent tool calls.
C18_ToolCallExecutedInStep ==
    [][(ModelAskedForTool /\ run.step < agent.max_steps) =>
          /\ agent'.recent_tool_calls # <<>>
          /\ agent'.recent_tool_calls[Len(agent'.recent_tool_calls)] = run'.response.tool_calls[1]
          /\ run'.executed > run.executed]_vars

NoRepeat(urls) == \A i, j \in 1..Len(urls) : i # j => urls[i] # urls[j]

ForcedHnIssued == Len(run'.forced_hn) > Len(run.forced_hn)

\* C19: a forced aggregator navigation to a URL is issued at most once in a
\* run, whether its fetch succeeded or failed, and the model is not
\* consulted in a step that issues one.
C19_ForcedHnOnce ==
    [][/\ NoRepeat(run'.forced_hn)
       /\ ForcedHnIssued => run'.generated = run.generated]_vars

\* no model.generate in a step that issues a forced aggregator navigation
C19_ForcedStepSkipsModel == [][ForcedHnIssued => run'.generated = run.generated]_vars

\* C20: the forced item navigations of a run never target the same URL
\* twice.
C20_ForcedItemNoLoop == NoRepeat(run.forced_item)

\* ---------------------------------------------------------------------------
\* Work done by one iteration of the loop of Agent.run
\* ---------------------------------------------------------------------------

\* The transition is one iteration of `for step in range(1, max_steps + 1)`.
LoopIteration ==
    /\ run.pc = "loop"
    /\ run'.step > run.step \/ run'.pc = "done"

ExecutedInStep == run'.executed > run.executed

\* requests.get calls made by the iteration (through executor.execute).
StepFetches == IF ExecutedInStep THEN lastExec'.fetches ELSE 0

\* model.generate calls made by the iteration, plus the generate_text call of
\* SummaryService.summarize when content.summarize ran in it.
StepGenerations ==
    (run'.generated - run.generated)
        + (IF ExecutedInStep THEN lastExec'.generations ELSE 0)

\* _retry_summary ran: detail mode, empty summary, no tool calls.
RetriedInStep ==
    /\ agent.detail_mode
    /\ run'.response_bound
    /\ run'.response.summary = ""
    /\ run'.response.tool_calls = <<>>
    /\ run'.generated > run.generated

\* C21 (as stated): every iteration of Agent.run makes at most one network
\* fetch and at most one model-generation call, in every mode, detail mode
\* with an empty model answer included.
C21_OneFetchOneGeneration ==
    [][LoopIteration => StepFetches <= 1 /\ StepGenerations <= 1]_vars

\* C21 (amended): every iteration of Agent.run makes at most one network
\* fetch; it makes at most one model-generation call, except that in detail
\* mode an empty answer without tool calls is followed by the one generate
\* call of _retry_summary, two generation calls in that iteration.
C21_OneFetchOneGenerationOrRetry ==
    [][LoopIteration =>
          /\ StepFetches <= 1
          /\ StepGenerations <= (IF RetriedInStep THEN 2 ELSE 1)
          /\ RetriedInStep => StepGenerations = 2]_vars

\* A detail-mode run ended in its first iteration after the retry: two
\* generate calls were made and the step counter never advanced.
C21_Witness ==
    /\ run.pc = "done"
    /\ agent.detail_mode
    /\ run.step = 1
    /\ run.generated = 2
    /\ run.response.summary = ""

(***************************************************************************)
(* SpecRecent: the Agent's memory of executed tools and visited pages,     *)
(* _record_tool and _update_observation applied any number of times (the   *)
(* lists are attributes of the Agent and outlive a run).  The n-th         *)
(* recorded call is browser.scroll with deltaY = n, so entries are told    *)
(* apart; arg counts the calls recorded and the briefs appended.           *)
(***************************************************************************)
MaxRecorded == 22
MaxBriefed == 8

RecordedCall(n) == ToolCall(BROWSER_SCROLL, Args1("deltaY", JInt(n)))

RecordedResult == ToolResult("ok", Payload("scrolled", "", "", "", ""))

\* The observations handed to _update_observation: the pages of the web as
\* _parse_observation returns them.
NewObservations ==
    {parse_observation(url, url, DefaultMaxElements).observation : url \in StartPages}

InitRecent ==
    /\ \E start \in StartPages :
           /\ session = AgentSession(start)
           /\ agent = Agent(session, ASSIST, DefaultMaxSteps, FALSE)
    /\ executor = ToolExecutor(DefaultMaxElements, ASSIST, NoPlan)
    /\ lastCall = NoCall
    /\ lastExec = NoExec
    /\ pre = Snapshot(session, ASSIST)
    /\ run = IdleRun
    /\ vcall = NoVCall
    /\ vresult = NoVerdict
    /\ arg = [kind |-> "recent", executed |-> 0, briefed |-> 0]
    /\ ret = NoRet

\* self._record_tool(call, outcome.result)
RecordTool ==
    /\ arg.executed < MaxRecorded
    /\ agent' = record_tool(agent, RecordedCall(arg.executed + 1), RecordedResult)
    /\ arg' = [arg EXCEPT !.executed = @ + 1]
    /\ UNCHANGED <<session, executor, lastCall, lastExec, pre, run, vcall, vresult, ret>>

\* self._update_observation(outcome.observation)
UpdateObservation(observation) ==
    /\ arg.briefed < MaxBriefed
    /\ agent' = update_observation(agent, observation)
    /\ arg' = [arg EXCEPT !.briefed =
                   IF agent.observation.url # observation.url THEN @ + 1 ELSE @]
    /\ UNCHANGED <<session, executor, lastCall, lastExec, pre, run, vcall, vresult, ret>>

NextRecent ==
    \/ RecordTool
    \/ \E observation \in NewObservations : UpdateObservation(observation)

SpecRecent == InitRecent /\ [][NextRecent]_vars

\* The calls numbered from..to, in execution order.
RecordedCalls(from, to) == [i \in 1..(to - from + 1) |-> RecordedCall(from + i - 1)]

FirstKept == IF arg.executed > RecentToolLimit THEN arg.executed - RecentToolLimit + 1 ELSE 1

RecentWithinLimits ==
    /\ Len(agent.recent_tool_calls) <= RecentToolLimit
    /\ Len(agent.recent_tool_results) <= RecentToolLimit
    /\ Len(agent.recent_tool_results) = Len(agent.recent_tool_calls)
    /\ agent.recent_tool_calls = RecordedCalls(FirstKept, arg.executed)
    /\ Len(agent.recent_pages) <= RecentPagesLimit

\* recent_pages changes only on a change of URL, and then by the brief of
\* the page that was left.
BriefOnlyOnNewUrl ==
    agent'.recent_pages # agent.recent_pages
        => /\ agent'.observation.url # agent.observation.url
           /\ agent'.recent_pages[Len(agent'.recent_pages)]
                  = make_page_brief(agent.observation)

\* C22: the Agent keeps at most 20 recent tool calls and 20 results, the
\* most recent ones in execution order, and at most 6 page briefs; a brief
\* is appended only when the new Observation's URL differs from the
\* previous one.
C22_BoundedRecentMemory == []RecentWithinLimits /\ [][BriefOnlyOnNewUrl]_vars

\* More than 20 calls were recorded and more than 6 briefs appended: both
\* lists are full and have dropped their oldest entries.
C22_Witness ==
    /\ arg.kind = "recent"
    /\ arg.executed > RecentToolLimit
    /\ arg.briefed > RecentPagesLimit
    /\ Len(agent.recent_tool_calls) = RecentToolLimit
    /\ Len(agent.recent_pages) = RecentPagesLimit

(***************************************************************************)
(* Calls that do not navigate (Spec).                                      *)
(***************************************************************************)
\* The last call was a click that reached its handler and named a handle of
\* the active tab whose element is not an anchor with a URL.
ClickedNonAnchor ==
    /\ Handled(BROWSER_CLICK)
    /\ KnownHandle(pre.session, lastCall.arguments["handleId"].s)
    /\ LET element == PreTab.element_map[lastCall.arguments["handleId"].s] IN
           ~(element.role = "a" /\ element.href # NoUrl)

NonNavigatingCall ==
    \/ lastCall.name \in {BROWSER_TYPE, BROWSER_SELECT, BROWSER_SCROLL}
    \/ ClickedNonAnchor

ClickedAnchor ==
    /\ Handled(BROWSER_CLICK)
    /\ KnownHandle(pre.session, lastCall.arguments["handleId"].s)
    /\ LET element == PreTab.element_map[lastCall.arguments["handleId"].s] IN
           element.role = "a" /\ element.href # NoUrl

\* A call that loads a page came back with status ok.
NavigationSucceeded ==
    /\ lastExec.result.status = "ok"
    /\ \/ \E name \in {BROWSER_NAVIGATE, BROWSER_OPEN_TAB, BROWSER_BACK, BROWSER_FORWARD,
                       BROWSER_REFRESH} : Handled(name)
       \/ ClickedAnchor

\* The outcome is that of a navigation: payload {url, title} of the active
\* tab, and the Observation of that tab.
NavigationOutcome ==
    /\ lastExec.has_observation
    /\ lastExec.result.payload.kind = "navigation"
    /\ lastExec.result.payload.url = NowTab.url
    /\ lastExec.result.payload.title = NowTab.title
    /\ lastExec.observation.url = NowTab.url

ContentOrFormCall ==
    lastCall.name \in {BROWSER_TYPE, BROWSER_SELECT, BROWSER_SCROLL, CONTENT_SUMMARIZE,
                       CONTENT_FIND}

\* C24 (as stated): successful navigate, open_tab, back, forward, refresh and
\* click on an anchor return the payload {url, title} of the active tab's new
\* url and title together with an Observation; a click on a non-anchor, type,
\* select, scroll, content.summarize and content.find return a payload of
\* their own and no Observation.
C24_ObservationIffNavigation ==
    /\ NavigationSucceeded => NavigationOutcome
    /\ (ContentOrFormCall \/ ClickedNonAnchor) =>
           /\ ~lastExec.has_observation
           /\ lastExec.result.payload.kind # "navigation"

\* What the executor does: the statement above holds of every call but the
\* click on a non-anchor, whose successful outcome is that of a navigation;
\* and no failed call carries an Observation.
C24_ClickAlwaysObserves ==
    /\ NavigationSucceeded => NavigationOutcome
    /\ ContentOrFormCall =>
           /\ ~lastExec.has_observation
           /\ lastExec.result.payload.kind # "navigation"
    /\ (ClickedNonAnchor /\ lastExec.result.status = "ok") => NavigationOutcome
    /\ lastExec.result.status = "error" => ~lastExec.has_observation

\* The button of the article page was clicked: nothing was fetched and the
\* outcome carries an Observation.
C24_NonAnchorClickObserved ==
    /\ ClickedNonAnchor
    /\ lastExec.fetches = 0
    /\ lastExec.has_observation

(***************************************************************************)
(* SpecBrowser: the BrowserSession driven directly, one method per step,   *)
(* with fetches that may fail.  arg is the method called, ret its (ok,     *)
(* err) pair, pre the session before the call.                             *)
(***************************************************************************)
BrowserCall(op, url) == [kind |-> "browser", op |-> op, url |-> url]

BrowserRet(r) == [kind |-> "browser", ok |-> r.ok, err |-> r.err, fetches |-> r.fetches]

InitBrowser ==
    /\ session = BrowserSession
    /\ executor = ToolExecutor(DefaultMaxElements, ASSIST, NoPlan)
    /\ lastCall = NoCall
    /\ lastExec = NoExec
    /\ pre = Snapshot(BrowserSession, ASSIST)
    /\ agent = IdleAgent
    /\ run = IdleRun
    /\ vcall = NoVCall
    /\ vresult = NoVerdict
    /\ arg = NoArg
    /\ ret = NoRet

\* The session after a method returned r.
Returned(op, url, r) ==
    /\ WithinBounds(r.session)
    /\ session' = r.session
    /\ pre' = Snapshot(session, ASSIST)
    /\ arg' = BrowserCall(op, url)
    /\ ret' = BrowserRet(r)
    /\ UNCHANGED <<executor, lastCall, lastExec, agent, run, vcall, vresult>>

BrowserOpenTab(url, fetch_ok) ==
    \E r \in {open_tab(session, url, fetch_ok)} : Returned("open_tab", url, r)

BrowserNavigate(url, fetch_ok) ==
    \E r \in {navigate(session, url, fetch_ok)} : Returned("navigate", url, r)

BrowserBack(fetch_ok) ==
    \E r \in {back(session, fetch_ok)} : Returned("back", NoUrl, r)

BrowserForward(fetch_ok) ==
    \E r \in {forward(session, fetch_ok)} : Returned("forward", NoUrl, r)

BrowserRefresh(fetch_ok) ==
    \E r \in {refresh(session, fetch_ok)} : Returned("refresh", NoUrl, r)

BrowserObserveDom(max_elements) ==
    \E o \in {observe_dom(session, max_elements)} :
        Returned("observe_dom", NoUrl, SessionResult(o.session, TRUE, "", 0))

NextBrowser ==
    \/ \E url \in CallUrls, fetch_ok \in BOOLEAN : BrowserOpenTab(url, fetch_ok)
    \/ \E url \in CallUrls, fetch_ok \in BOOLEAN : BrowserNavigate(url, fetch_ok)
    \/ \E fetch_ok \in BOOLEAN : BrowserBack(fetch_ok)
    \/ \E fetch_ok \in BOOLEAN : BrowserForward(fetch_ok)
    \/ \E fetch_ok \in BOOLEAN : BrowserRefresh(fetch_ok)
    \/ \E max_elements \in {2, DefaultMaxElements} : BrowserObserveDom(max_elements)

SpecBrowser == InitBrowser /\ [][NextBrowser]_vars

LoadingMethods == {"open_tab", "navigate", "back", "forward", "refresh"}

\* The last method called loaded a page into the active tab.
Loaded ==
    /\ arg.kind = "browser"
    /\ arg.op \in LoadingMethods
    /\ ret.ok

\* C25 (as stated): every successful load sets the tab's title from the new
\* markup and clears the tab's element-handle map, so that until the next
\* observe_dom no handle resolves.
C25_LoadClearsHandles ==
    Loaded =>
        /\ NowTab.title = extract_title(NowTab.html)
        /\ NowTab.element_map = NoElements

\* The half that holds: the title is that of the loaded markup.
C25_LoadSetsTitle == Loaded => NowTab.title = extract_title(NowTab.html)

\* The tab was observed on one page and has loaded another since: the
\* handles of the page it left still resolve.
C25_StaleHandlesAfterLoad ==
    /\ Loaded
    /\ HasActiveTab(pre.session)
    /\ NowTab.url # PreTab.url
    /\ PreTab.element_map # NoElements
    /\ NowTab.element_map = PreTab.element_map

\* The history fields of a tab agree with its url.
HistoryConsistent(tab) ==
    /\ 0 <= tab.history_index
    /\ tab.history_index < Len(tab.history)
    /\ tab.url = tab.history[tab.history_index + 1]

\* The last method called failed.
MethodFailed == arg.kind = "browser" /\ ~ret.ok

\* C28 (as stated): every tab of the session, having loaded once, has
\* 0 <= history_index < len(history) and url = history[history_index] after
\* any interleaving of navigate, open_tab, back, forward and refresh with
\* failed fetches among them; a failed method leaves the session's tabs (url,
\* markup, title, history, history_index) as they were.
C28_HistoryConsistent ==
    /\ \A i \in 1..Len(session.tabs) : HistoryConsistent(session.tabs[i])
    /\ MethodFailed => session = pre.session

\* What does hold: the index stays inside the history, and a failed method
\* changes nothing but, for back and forward, history_index.
C28_IndexInsideHistory ==
    /\ \A i \in 1..Len(session.tabs) :
           /\ 0 <= session.tabs[i].history_index
           /\ session.tabs[i].history_index < Len(session.tabs[i].history)
    /\ MethodFailed =>
           /\ OnlyActiveTabChanged
           /\ HasActiveTab(pre.session) =>
                  /\ [NowTab EXCEPT !.history_index = PreTab.history_index] = PreTab
                  /\ NowTab.history_index # PreTab.history_index
                         => arg.op \in {"back", "forward"} /\ ret.fetches = 1

\* back() failed at its fetch: history_index has moved and the url has not.
C28_FailedBackMovedIndex ==
    /\ MethodFailed
    /\ arg.op = "back"
    /\ ret.fetches = 1
    /\ NowTab.history_index = PreTab.history_index - 1
    /\ NowTab.url = PreTab.url
    /\ NowTab.url # NowTab.history[NowTab.history_index + 1]

(***************************************************************************)
(* SpecAccess: SummaryInputBuilder.build and _access_signals applied to    *)
(* observations described by what the two read: the number of items,       *)
(* whether an item title contains the query "p1", the length and relevance *)
(* of the primary content, the number of blocks and the characters of the  *)
(* relevant ones, the length of the text, a dialog block, a password or    *)
(* email input, and the presence of comments.                              *)
(***************************************************************************)
LIST == "list"
ITEM == "item"
PAGE_TEXT == "page_text"
COMMENTS == "comments"

NoScope == ""

MeasuredObservation(items, lists_p1, primary_chars, primary_relevant, blocks, block_chars,
                    text_chars, has_dialog, has_auth_field, comments) ==
    [items |-> items, lists_p1 |-> lists_p1, primary_chars |-> primary_chars,
     primary_relevant |-> primary_relevant, blocks |-> blocks, block_chars |-> block_chars,
     text_chars |-> text_chars, has_dialog |-> has_dialog,
     has_auth_field |-> has_auth_field, comments |-> comments]

is_list_observation(obs) ==
    \/ obs.items >= 12
    \/ obs.items >= 6 /\ obs.primary_chars < 500
    \/ obs.items >= 3 /\ obs.primary_chars < 200

\* low_content and (has_dialog or has_auth_field or text_chars < 120)
low_content_signal(obs) ==
    LET primary_chars == IF obs.primary_relevant THEN obs.primary_chars ELSE 0
        low_content == primary_chars < 220 /\ obs.block_chars < 900 /\ obs.text_chars < 1800
    IN  low_content /\ (obs.has_dialog \/ obs.has_auth_field \/ obs.text_chars < 120)

AccessReasons(obs) ==
    LET reasons == (IF obs.has_dialog THEN <<"overlay_or_dialog">> ELSE <<>>)
                       \o (IF obs.has_auth_field THEN <<"auth_fields">> ELSE <<>>)
    IN  IF reasons = <<>> THEN <<"low_visible_text">> ELSE reasons

Signals(limited, reasons) == [limited |-> limited, reasons |-> reasons]

access_signals(obs, kind) ==
    IF kind \in {LIST, COMMENTS} THEN Signals(FALSE, <<>>)
    ELSE IF is_list_observation(obs) THEN Signals(FALSE, <<>>)
    ELSE IF low_content_signal(obs) THEN Signals(TRUE, AccessReasons(obs))
    ELSE Signals(FALSE, <<>>)

should_use_item_snippet(obs) ==
    /\ is_list_observation(obs)
    /\ obs.primary_chars < 400
    /\ ~(obs.blocks >= 6 /\ obs.primary_chars >= 200)

\* _select_target_item found an item.
select_target_item(obs, goal_plan) ==
    /\ obs.items > 0
    /\ \/ goal_plan.topic_index # NoIndex
          /\ 0 <= goal_plan.topic_index /\ goal_plan.topic_index < obs.items
       \/ goal_plan.item_query # NoQuery /\ obs.lists_p1

BuiltInput(obs, kind) ==
    [kind |-> kind, access_limited |-> access_signals(obs, kind).limited,
     access_signals |-> access_signals(obs, kind).reasons]

build(obs, goal_plan, scope_override) ==
    LET wants_comments == scope_override = "comments" \/ goal_plan.wants_comments
        wants_item == scope_override = "item" \/ goal_plan.topic_index # NoIndex
    IN  IF wants_comments THEN BuiltInput(obs, COMMENTS)
        ELSE IF wants_item /\ should_use_item_snippet(obs) /\ select_target_item(obs, goal_plan)
            THEN BuiltInput(obs, ITEM)
        ELSE IF is_list_observation(obs) /\ obs.items > 0 THEN BuiltInput(obs, LIST)
        ELSE BuiltInput(obs, PAGE_TEXT)

MeasuredObservations ==
    {MeasuredObservation(items, lists_p1, primary_chars, primary_relevant, b[1], b[2],
                         text_chars, has_dialog, has_auth_field, comments) :
        items \in {0, 3, 12}, lists_p1 \in BOOLEAN, primary_chars \in {0, 150, 450},
        primary_relevant \in BOOLEAN, b \in {<<0, 0>>, <<6, 300>>, <<6, 1000>>},
        text_chars \in {100, 500, 2000}, has_dialog \in BOOLEAN,
        has_auth_field \in BOOLEAN, comments \in BOOLEAN}

\* Goal plans over one index and one query.
BuilderPlans ==
    {GoalPlan(topic_index, wants_comments, item_query) :
        topic_index \in {NoIndex, 0}, wants_comments \in BOOLEAN,
        item_query \in {NoQuery, "p1"}}

BuilderScopes == {NoScope, "item", "comments"}

InitAccess ==
    /\ session = BrowserSession
    /\ executor = ToolExecutor(DefaultMaxElements, ASSIST, NoPlan)
    /\ lastCall = NoCall
    /\ lastExec = NoExec
    /\ pre = Snapshot(BrowserSession, ASSIST)
    /\ agent = IdleAgent
    /\ run = IdleRun
    /\ vcall = NoVCall
    /\ vresult = NoVerdict
    /\ \E obs \in MeasuredObservations, goal_plan \in BuilderPlans,
          scope_override \in BuilderScopes :
           arg = [kind |-> "access", observation |-> obs, goal_plan |-> goal_plan,
                  scope_override |-> scope_override]
    /\ ret = NoRet

BuildInput ==
    /\ arg.kind = "access"
    /\ ret = NoRet
    /\ ret' = [kind |-> "access",
               input |-> build(arg.observation, arg.goal_plan, arg.scope_override)]
    /\ UNCHANGED <<session, executor, lastCall, lastExec, pre, agent, run, vcall, vresult,
                   arg>>

NextAccess == BuildInput

SpecAccess == InitAccess /\ [][NextAccess]_vars

Built == ret.kind = "access"

\* C26 (as stated): an Observation with low content together with a dialog
\* block, an authentication input or near-zero text gets the access-limited
\* flag whichever kind (LIST, ITEM, COMMENTS, PAGE_TEXT) the builder selects.
C26_FlagIndependentOfKind ==
    (Built /\ low_content_signal(arg.observation)) => ret.input.access_limited

\* What the builder does: the flag is raised for the PAGE_TEXT kind only,
\* and there exactly when the observation has the low-content signal.
C26_FlagOnlyForPageText ==
    Built =>
        (ret.input.access_limited
            <=> ret.input.kind = PAGE_TEXT /\ low_content_signal(arg.observation))

\* A login page (password field, little text) summarized with the comments
\* scope: the COMMENTS input is not flagged.
C26_CommentsNotFlagged ==
    /\ Built
    /\ low_content_signal(arg.observation)
    /\ arg.observation.has_auth_field
    /\ arg.observation.items = 0
    /\ ret.input.kind = COMMENTS
    /\ ~ret.input.access_limited

(***************************************************************************)
(* Disambiguation sources of a GoalPlan (SpecClassify).                    *)
(***************************************************************************)
\* C27: a GoalPlan returned by _classify_goal never has both topic_index and
\* item_query set: a quoted phrase or an "about" clause becomes the
\* item_query only when no ordinal was found.
C27_OneDisambiguationSource ==
    Classified =>
        ~(run.goal_plan.topic_index # NoIndex /\ run.goal_plan.item_query # NoQuery)

\* The other half: wants_comments is the presence of the comments
\* vocabulary, whatever the index and the query are.
C27_CommentsIndependent ==
    Classified => run.goal_plan.wants_comments = run.goal.comment_word

\* A goal with an ordinal and a quoted phrase was classified with both the
\* index and the query.
C27_IndexAndQuery ==
    /\ Classified
    /\ run.goal.quoted # NoQuery
    /\ run.goal_plan.topic_index # NoIndex
    /\ run.goal_plan.item_query = run.goal.quoted

(***************************************************************************)
(* OBSERVE mode keeps the browser where it is (SpecAgent).                 *)
(***************************************************************************)
\* Where the browser is: the tabs' pages and histories and the active index.
PlaceOf(s) ==
    [tabs |-> [i \in 1..Len(s.tabs) |-> PageOf(s.tabs[i])],
     active_index |-> s.active_index]

\* C29: in OBSERVE mode no step of Agent.run, forced navigations and the
\* tool calls requested by the model included, changes the tab list, the
\* active index or a tab's url, markup, title, history and history_index; so
\* the browser is at the end of run() where it was at its start.
C29_ObserveModeStaysPut ==
    [][agent.mode = OBSERVE => PlaceOf(session') = PlaceOf(session)]_vars

\* An OBSERVE-mode run has ended after the navigation requested by the model
\* was executed and denied.
C29_Witness ==
    /\ agent.mode = OBSERVE
    /\ run.pc = "done"
    /\ run.executed > 0
    /\ lastCall.name = BROWSER_NAVIGATE
    /\ lastExec.result.payload.error = "observe_mode_blocks_tool"

\* An OBSERVE-mode run forced an item navigation, which was denied.
C29_ForcedDenied ==
    /\ agent.mode = OBSERVE
    /\ run.forced_item # <<>>
    /\ lastExec.result.payload.error = "observe_mode_blocks_tool"

(***************************************************************************)
(* The summarization path of Agent.run (SpecAgent).                        *)
(***************************************************************************)
\* The run is in ASSIST mode, has an active tab, and its goal makes
\* _should_use_summary_tool true.
SummaryRun ==
    /\ run.pc # "idle"
    /\ agent.mode = ASSIST
    /\ HasActiveTab(session)
    /\ UsesSummaryTool

\* content.summarize that reached the SummaryService answers with a text.
SummaryNeverEmpty ==
    (lastCall.name = CONTENT_SUMMARIZE /\ lastExec.result.status = "ok")
        => lastExec.result.payload.summary # ""

\* The decision model is never asked, and a run that has returned returned
\* the text of the summary tool.
SummaryRunSkipsModel ==
    SummaryRun =>
        /\ run.generated = 0
        /\ run.pc = "done" =>
               /\ lastCall = SummaryCall
               /\ run.returned = lastExec.result.payload.summary
               /\ run.returned # ""

\* An iteration with neither a forced navigation nor a skip ends the run.
SummaryStepReturns == (SummaryRun /\ NotForced) => run'.pc = "done"

====
